---- MODULE Spec2Model ----
(***************************************************************************)
(* MyShelf: the barcode-scan debouncer (ScannerView.processBarcode), the   *)
(* metadata lookup as the debouncer sees it (fetchBookByISBN) and the      *)
(* library store (App: addBook / deleteBook / updateBook / clearAllData).  *)
(*                                                                         *)
(* The repository holds two ScannerView sources.  Both are modelled; the   *)
(* variable `version` says which one a behaviour runs:                     *)
(*   "prop"  src/components/ScannerView.tsx, mounted by src/App.tsx        *)
(*           (library kept by useLocalStorage; processBarcode closes over  *)
(*           the existingISBNs prop, so the scanner effect re-runs on      *)
(*           every change of the library);                                 *)
(*   "ref"   src/unnamed/part_009, mounted by the App of                   *)
(*           src/unnamed/part_003 lines 26-190 (library kept by useState;  *)
(*           processBarcode reads existingISBNsRef and pauses the decoder  *)
(*           during a lookup).                                             *)
(*                                                                         *)
(* Granularity.  A JavaScript task runs to completion, so one action is    *)
(* one task: a decode callback up to its first real suspension, the        *)
(* continuation after `await fetchBookByISBN`, a timer callback, a click   *)
(* handler.  `await scannerRef.current?.pause()` and `...resume()` await a *)
(* non-promise: their continuation is a microtask of the same task.  The   *)
(* React re-render that follows a state update, with its effects, is taken *)
(* with the task that made the update.                                     *)
(***************************************************************************)
EXTENDS Integers, Sequences, FiniteSets, TLC

\* ------------------------------------------------------------ bounds
MaxTime == 1
MaxTimers == 2
MaxLookups == 2
MaxEdits == 2
MaxRequests == 2
CountCap == 2

\* ------------------------------------------------------------ values
\* A decoded string is the sequence of its characters; a digit is its value.
V1 == <<9, 7, 8, 0, 1, 4, 0, 4, 4, 9, 1, 3, 6>>
V2 == <<9, 7, 8, 0, 3, 0, 6, 4, 0, 6, 1, 5, 7>>
BAD == <<9, 7, 8, 0, 1, 4, 0, 4, 4, 9, 1, 3, 7>>
Codes == {V1, V2, BAD}
\* The environment: the codes the lookup service has a record for, and the
\* strings the user types into the manual-entry ISBN field.
Catalogue == {V1}
ManualCodes == {BAD}
\* useRef<string>('')
NoCode == <<>>

Versions == {"prop", "ref"}

VARIABLES
    version,        \* which ScannerView/App pair runs
    books,          \* App state `books`: sequence of Book records, newest first
    view,           \* App state `view`: "scanner" | "library"
    now,            \* the clock read by new Date()
    isProcessing,   \* isProcessingRef.current
    lastScanned,    \* lastScannedRef.current
    existingISBNs,  \* the ISBN set processBarcode checks (prop closure / existingISBNsRef)
    paused,         \* the decoder is paused (Html5Qrcode.pause), "ref" only
    timers,         \* pending setTimeout callbacks of the mounted ScannerView, oldest first
    cooldownRef,    \* cooldownTimeoutRef.current: index in timers, 0 when not pending
    calls,          \* processBarcode invocations suspended in `await fetchBookByISBN`;
                    \* live: started by the ScannerView instance that is still mounted
    lookups,        \* Resolver invocations so far
    resolved,       \* per code: Resolver invocations of this session since the code's cooldown last elapsed
    last,           \* what the last task did, and the toast it raised
    candidate,      \* validator harness: the string handed to isValidISBN
    verdict,        \* validator harness: what isValidISBN returned for it
    edits,          \* validator harness: characters changed so far
    olReply,        \* lookup environment: what Open Library answers
    llmReply,       \* lookup environment: what each LLM model answers
    apiKey,         \* lookup environment: OPENROUTER_API_KEY is configured
    reqs,           \* per lookup: where fetchBookByISBN and its /api/book handler stand
    stored,         \* the library held by the key-value store behind /api/library
    lastOp,         \* store harness: the operation applied last, with its argument
    editedBook,     \* BookDetailsModal: its copy of the selected book, NoBook while closed
    authToken,      \* App: the in-memory auth token, NoToken for null
    credential,     \* localStorage 'myshelf-auth-token', NoToken when there is none
    inflight,       \* library requests sent and not yet answered
    lastReply,      \* the library request answered last, with the status it got
    raw,            \* what 'my-shelf-books' held in localStorage when the page last loaded
    storedValue,    \* useLocalStorage: the books in memory
    localStorage,   \* the text under 'my-shelf-books'
    file,           \* the file exportToJSON downloaded last
    exported,       \* the books that file was made from
    step,           \* export and import harness: what happened last
    olBook,         \* what Open Library holds under ISBN:<isbn> for the isbn looked up
    lookedUp,       \* the isbn that was looked up
    record,         \* the record fetchBookByISBN made of the answer, NoRecord before
    answers,        \* tryLLM: what each model answers to the completion request
    queried,        \* tryLLM: the models asked so far, in the order asked
    asking,         \* tryLLM: the model whose answer is awaited, 0 when none
    llmResult,      \* tryLLM: what it returned, once it has
    tabValue,       \* per tab: the books useLocalStorage holds in memory
    sharedItem,           \* the text under 'my-shelf-books' that the tabs share
    events,         \* per tab: storage events queued for it, oldest first
    APP_USER,       \* process.env.APP_USER of the deployment
    APP_PASS,       \* process.env.APP_PASS of the deployment
    kv,             \* the value under 'myshelf:library' in the KV store
    handlers,       \* the invocations of the library handler that are running
    response,       \* the last response of the library endpoint, with its request
    answeredAdded,  \* the isbns of the requests answered 201 'added'
    deleteRan,      \* a DELETE has cleared the library
    issued,         \* the last response of the login endpoint
    tokenAccepted   \* whether the library endpoint accepted the issued token

\* The App with its ScannerView.
app == <<version, books, view, now, isProcessing, lastScanned,
         existingISBNs, paused, timers, cooldownRef, calls, lookups, resolved, last>>

\* The harness around the validator.
validator == <<candidate, verdict, edits>>

\* What the App's own steps leave alone.
\* The lookups and the sources they query.
resolver == <<olReply, llmReply, apiKey, reqs>>

\* The harness around the store operations, with the server's copy of the library.
ops == <<stored, lastOp>>

\* LibraryView's details modal
details == <<editedBook>>

\* Authentication against /api/library
auth == <<authToken, credential, inflight, lastReply>>

\* The localStorage-backed library with export, import and migration
migration == <<raw, storedValue, localStorage, file, exported, step>>

\* The parts that came after the ones above
\* The primary source's answer and the record made of it
normalizer == <<olBook, lookedUp, record>>

\* One call of tryLLM
fallback == <<answers, queried, asking, llmResult>>

\* Two tabs on the same storage
tabs == <<tabValue, sharedItem, events>>

\* /api/login and /api/library with the KV store behind it
server == <<APP_USER, APP_PASS, kv, handlers, response, answeredAdded, deleteRan,
            issued, tokenAccepted>>

rest == <<migration, normalizer, fallback, tabs, server>>

aux == <<validator, resolver, ops, details, auth, rest>>

vars == <<app, aux>>

debouncer == <<isProcessing, lastScanned, timers, cooldownRef, paused>>

\* ------------------------------------------------------------ ISBN validator
IsDigit(ch) == ch \in 0..9

RECURSIVE WeightedSum(_, _)
WeightedSum(digits, i) ==
    IF i > 12 THEN 0
    ELSE digits[i] * (IF (i - 1) % 2 = 0 THEN 1 ELSE 3) + WeightedSum(digits, i + 1)

isValidISBNAnyPrefix(isbn) ==
    IF Len(isbn) # 13 \/ \E i \in 1..Len(isbn) : ~IsDigit(isbn[i]) THEN FALSE
    ELSE isbn[13] = (10 - (WeightedSum(isbn, 1) % 10)) % 10

isValidISBN(isbn) ==
    IF Len(isbn) # 13 \/ \E i \in 1..Len(isbn) : ~IsDigit(isbn[i]) THEN FALSE
    ELSE IF ~(isbn[1] = 9 /\ isbn[2] = 7 /\ isbn[3] \in {8, 9}) THEN FALSE
    ELSE LET sum == WeightedSum(isbn, 1)
             calculatedCheckDigit == (10 - (sum % 10)) % 10
         IN  isbn[13] = calculatedCheckDigit

\* ------------------------------------------------------------ records
\* rating: null
NoRating == 0

createBook(isbn, dateAdded) ==
    [isbn |-> isbn, dateAdded |-> dateAdded,
     readingStatus |-> "unread", rating |-> NoRating, notes |-> "", favorite |-> FALSE]

\* fetchBookByISBN's `null`
NoBook == createBook(NoCode, 0)

IsbnSet(bs) == {bs[i].isbn : i \in DOMAIN bs}

RemoveAt(seq, j) ==
    IF j \in DOMAIN seq
    THEN SubSeq(seq, 1, j - 1) \o SubSeq(seq, j + 1, Len(seq))
    ELSE seq

\* ------------------------------------------------------------ library store
addBookNoDedup(prevBooks, newBook) == <<newBook>> \o prevBooks

addBookAtTail(prevBooks, newBook) ==
    IF \E i \in DOMAIN prevBooks : prevBooks[i].isbn = newBook.isbn
    THEN prevBooks
    ELSE prevBooks \o <<newBook>>

addBook(prevBooks, newBook) ==
    IF \E i \in DOMAIN prevBooks : prevBooks[i].isbn = newBook.isbn
    THEN prevBooks
    ELSE <<newBook>> \o prevBooks

deleteBookHead(prevBooks, isbn) ==
    IF \E i \in DOMAIN prevBooks : prevBooks[i].isbn = isbn
    THEN Tail(prevBooks)
    ELSE prevBooks

deleteBook(prevBooks, isbn) ==
    SelectSeq(prevBooks, LAMBDA book : book.isbn # isbn)

updateBookUpsert(prevBooks, updatedBook) ==
    IF \E i \in DOMAIN prevBooks : prevBooks[i].isbn = updatedBook.isbn
    THEN [i \in DOMAIN prevBooks |->
            IF prevBooks[i].isbn = updatedBook.isbn THEN updatedBook ELSE prevBooks[i]]
    ELSE <<updatedBook>> \o prevBooks

updateBook(prevBooks, updatedBook) ==
    [i \in DOMAIN prevBooks |->
        IF prevBooks[i].isbn = updatedBook.isbn THEN updatedBook ELSE prevBooks[i]]

\* /api/library, POST: `exists` leaves the stored library alone, else [book, ...library]
postBook(library, book) ==
    IF \E i \in DOMAIN library : library[i].isbn = book.isbn
    THEN library
    ELSE <<book>> \o library

\* ------------------------------------------------------------ the Resolver, seen from the client
Outcomes == {"found", "notfound", "error"}

fetchBookOnError(isbn, outcome) ==
    IF outcome \in {"found", "error"} THEN createBook(isbn, now) ELSE NoBook

\* 200 -> createBook({isbn: data.isbn, ..., dateAdded: new Date()}); 404 -> null;
\* any other failure is thrown and caught -> null.
fetchBookByISBN(isbn, outcome) ==
    IF outcome = "found" THEN createBook(isbn, now) ELSE NoBook

\* ------------------------------------------------------------ initial state
Other == [op |-> "other", code |-> NoCode, out |-> "none", signal |-> "none", live |-> FALSE]

InitLibraries == {<<>>, <<createBook(BAD, 0)>>}

ValidatorIdle ==
    /\ candidate = NoCode
    /\ verdict = FALSE
    /\ edits = 0

\* const MODELS = ['google/gemini-2.5-flash', 'openai/gpt-4o-mini']
Models == 1..2

Requests == 1..MaxRequests

NoRequest ==
    [pc |-> "new", isbn |-> NoCode, m |-> 0, tried |-> <<>>, inflight |-> {},
     status |-> 0, data |-> "none", kind |-> "pending", dateAdded |-> 0]

ResolverIdle ==
    /\ olReply = "empty"
    /\ llmReply = [m \in Models |-> "error"]
    /\ apiKey = TRUE
    /\ reqs = [r \in Requests |-> NoRequest]

NoOp == [op |-> "none", rec |-> NoBook, present |-> FALSE]

OpsIdle ==
    /\ stored = <<>>
    /\ lastOp = NoOp

\* selectedBook = null: no BookDetailsModal is mounted
DetailsClosed == editedBook = NoBook

NoToken == "none"
Token == "token"
NoReply == [kind |-> "none", status |-> 0]

\* logged in, with no library request under way
AuthSettled ==
    /\ authToken = Token
    /\ credential = Token
    /\ inflight = <<>>
    /\ lastReply = NoReply

NoFile == [has |-> FALSE, text |-> <<>>]

\* nothing stored, nothing exported
MigrationIdle ==
    /\ raw = <<>>
    /\ storedValue = <<>>
    /\ localStorage = <<>>
    /\ file = NoFile
    /\ exported = <<>>
    /\ step = "none"

NoRecord == [found |-> FALSE]

\* no lookup at the primary source
NormalizerIdle ==
    /\ olBook = <<>>
    /\ lookedUp = NoCode
    /\ record = NoRecord

Pending == [done |-> FALSE, payload |-> <<>>]

\* tryLLM not called
FallbackIdle ==
    /\ answers = <<>>
    /\ queried = <<>>
    /\ asking = 0
    /\ llmResult = Pending

Tabs == 1..2

\* both tabs loaded on an empty storage
TabsIdle ==
    /\ tabValue = [t \in Tabs |-> <<>>]
    /\ sharedItem = <<>>
    /\ events = [t \in Tabs |-> <<>>]

\* an absent value (undefined)
Missing == <<"undefined">>

EmptyText == <<>>

\* the invocations of the library handler that can be running at once
Handlers == 1..2

\* a body without an isbn
NoIsbn == ""

IdleHandler ==
    [pc |-> "idle", method |-> "", header |-> Missing, body |-> [isbn |-> NoIsbn],
     updated |-> <<>>]

NoResponse ==
    [method |-> "", header |-> Missing, status |-> 0, text |-> "", touched |-> FALSE]

NotIssued == [status |-> 0, token |-> Missing]

\* nothing configured, nothing stored, no request
ServerIdle ==
    /\ APP_USER = Missing
    /\ APP_PASS = Missing
    /\ kv = [present |-> FALSE, value |-> <<>>]
    /\ handlers = [h \in Handlers |-> IdleHandler]
    /\ response = NoResponse
    /\ answeredAdded = {}
    /\ deleteRan = FALSE
    /\ issued = NotIssued
    /\ tokenAccepted = "unchecked"

RestIdle ==
    MigrationIdle /\ NormalizerIdle /\ FallbackIdle /\ TabsIdle /\ ServerIdle

AuxInit ==
    ValidatorIdle /\ ResolverIdle /\ OpsIdle /\ DetailsClosed /\ AuthSettled /\ RestIdle

Init ==
    /\ AuxInit
    /\ version \in Versions
    /\ books \in InitLibraries
    /\ view = "scanner"
    /\ now = 0
    /\ isProcessing = FALSE
    /\ lastScanned = NoCode
    /\ existingISBNs = IsbnSet(books)
    /\ paused = FALSE
    /\ timers = <<>>
    /\ cooldownRef = 0
    /\ calls = <<>>
    /\ lookups = 0
    /\ resolved = [c \in Codes |-> 0]
    /\ last = Other

\* ------------------------------------------------------------ processBarcode
Event(op, code, out, signal, live) ==
    [op |-> op, code |-> code, out |-> out, signal |-> signal, live |-> live]

guardNone(code) == FALSE

guardMarkerOnly(code) == lastScanned = code

\* if (isProcessingRef.current || lastScannedRef.current === isbn) return;
guardBlocks(code) == isProcessing \/ lastScanned = code

neverInLibrary(code) == FALSE

\* existingISBNs.includes(isbn) / existingISBNsRef.current.includes(isbn)
alreadyInLibrary(code) == code \in existingISBNs

Bump(n) == IF n < CountCap THEN n + 1 ELSE n

branchSkipsValidation(code) ==
    IF guardBlocks(code) THEN "ignored"
    ELSE IF alreadyInLibrary(code) THEN "dup"
    ELSE "lookup"

\* The order of processBarcode's checks: the guard, then the library, then the
\* validator; what is left starts a lookup.
processBarcodeBranch(code) ==
    IF guardBlocks(code) THEN "ignored"
    ELSE IF alreadyInLibrary(code) THEN "dup"
    ELSE IF ~isValidISBN(code) THEN "invalid"
    ELSE "lookup"

\* One decode callback of the running scanner: processBarcode(decodedText) up to
\* `await fetchBookByISBN(isbn)`.
Decode(code) ==
    /\ UNCHANGED aux
    /\ view = "scanner"
    /\ ~paused
    /\ UNCHANGED <<version, books, view, now, existingISBNs>>
    /\ LET branch == processBarcodeBranch(code)
       IN  CASE branch = "ignored" ->
                 /\ UNCHANGED <<debouncer, calls, lookups, resolved>>
                 /\ last' = Event("decode", code, "ignored", "none", TRUE)
             [] branch = "dup" ->
                 \* addToast('Already in your shelf'); marker; cooldown timer
                 /\ Len(timers) < MaxTimers
                 /\ lastScanned' = code
                 /\ timers' = Append(timers, [kind |-> "dup", code |-> code])
                 /\ cooldownRef' = Len(timers) + 1
                 /\ UNCHANGED <<isProcessing, paused, calls, lookups, resolved>>
                 /\ last' = Event("decode", code, "dup", "already", TRUE)
             [] branch = "invalid" ->
                 /\ UNCHANGED <<debouncer, calls, lookups, resolved>>
                 /\ last' = Event("decode", code, "invalid", "none", TRUE)
             [] branch = "lookup" ->
                 /\ lookups < MaxLookups
                 /\ lookups' = lookups + 1
                 \* "ref": pause() either pauses the decoder or throws and is caught
                 /\ paused' \in (IF version = "ref" THEN BOOLEAN ELSE {FALSE})
                 /\ isProcessing' = TRUE
                 /\ lastScanned' = code
                 /\ calls' = Append(calls, [live |-> TRUE, isbn |-> code,
                                            base |-> IF version = "prop" THEN books ELSE <<>>])
                 /\ resolved' = [resolved EXCEPT ![code] = Bump(@)]
                 /\ UNCHANGED <<timers, cooldownRef>>
                 /\ last' = Event("decode", code, "lookup", "loading", TRUE)

\* onAddBook(book) as the suspended invocation `c` holds it.  "prop": App.tsx's
\* addBook -> useLocalStorage.setValue, which applies the updater to the
\* storedValue of the render that made the callback.  "ref": useState's setBooks,
\* which applies the updater to the current state.
onAddBook(c, book) ==
    IF version = "prop" THEN addBook(c.base, book) ELSE addBook(books, book)

\* The continuation of processBarcode after `await fetchBookByISBN(isbn)` for the
\* suspended invocation calls[i], with the try/else and the finally block, and the
\* re-render a changed library causes.
LookupDone(i, outcome) ==
    /\ UNCHANGED aux
    /\ i \in DOMAIN calls
    /\ outcome = "found" => calls[i].isbn \in Catalogue
    /\ LET c == calls[i]
           book == fetchBookByISBN(c.isbn, outcome)
           newBooks == IF book = NoBook THEN books ELSE onAddBook(c, book)
           rerender == newBooks # books
           proc == [kind |-> "proc", code |-> c.isbn]
       IN  /\ books' = newBooks
           /\ calls' = RemoveAt(calls, i)
           /\ last' = Event("done", c.isbn, outcome,
                            IF book = NoBook THEN "notfound" ELSE "added", c.live)
           /\ existingISBNs' = IF view = "scanner" THEN IsbnSet(newBooks) ELSE existingISBNs
           /\ IF ~c.live THEN
                   \* the instance that started the lookup is unmounted: its refs and
                   \* its timer are unreachable.  "prop": a mounted scanner's effect
                   \* re-runs when the library changed, and its cleanup clears the
                   \* timer cooldownTimeoutRef holds.
                   /\ IF version = "prop" /\ rerender /\ view = "scanner"
                      THEN timers' = RemoveAt(timers, cooldownRef) /\ cooldownRef' = 0
                      ELSE UNCHANGED <<timers, cooldownRef>>
                   /\ UNCHANGED <<isProcessing, lastScanned, paused>>
              ELSE IF version = "prop" /\ rerender THEN
                   \* finally: cooldownTimeoutRef.current = setTimeout(..., 1000); the
                   \* effect cleanup of the re-render runs clearTimeout(
                   \* cooldownTimeoutRef.current) before (early) or after the finally.
                   \E early \in BOOLEAN :
                       /\ IF early
                          THEN /\ Len(RemoveAt(timers, cooldownRef)) < MaxTimers
                               /\ timers' = Append(RemoveAt(timers, cooldownRef), proc)
                               /\ cooldownRef' = Len(timers')
                          ELSE /\ timers' = timers
                               /\ cooldownRef' = 0
                       /\ UNCHANGED <<isProcessing, lastScanned, paused>>
              ELSE
                   \* "ref": resume(); then the cooldown timer
                   /\ Len(timers) < MaxTimers
                   /\ timers' = Append(timers, proc)
                   /\ cooldownRef' = Len(timers) + 1
                   /\ paused' = FALSE
                   /\ UNCHANGED <<isProcessing, lastScanned>>
    /\ UNCHANGED <<version, view, now, lookups, resolved>>

\* A pending timer callback of the mounted ScannerView runs.
TimerFire(j) ==
    /\ UNCHANGED aux
    /\ j \in DOMAIN timers
    /\ timers' = RemoveAt(timers, j)
    /\ cooldownRef' = IF cooldownRef = j THEN 0
                      ELSE IF cooldownRef > j THEN cooldownRef - 1 ELSE cooldownRef
    /\ lastScanned' = NoCode
    /\ IF timers[j].kind = "proc"
       THEN /\ isProcessing' = FALSE
            /\ resolved' = [resolved EXCEPT ![timers[j].code] = 0]
       ELSE UNCHANGED <<isProcessing, resolved>>
    /\ last' = Other
    /\ UNCHANGED <<version, books, view, now, existingISBNs, paused, calls, lookups>>

\* handleStop -> onStop -> setView('library'): the ScannerView unmounts; the
\* effect cleanup clears the timer cooldownTimeoutRef holds and stops the scanner.
\* The instance's refs and remaining timers can no longer be observed.
Stop ==
    /\ UNCHANGED aux
    /\ view = "scanner"
    /\ view' = "library"
    /\ isProcessing' = FALSE
    /\ lastScanned' = NoCode
    /\ paused' = FALSE
    /\ timers' = <<>>
    /\ cooldownRef' = 0
    /\ existingISBNs' = {}
    /\ resolved' = [c \in Codes |-> 0]
    /\ last' = Other
    /\ calls' = [i \in DOMAIN calls |-> [calls[i] EXCEPT !.live = FALSE]]
    /\ UNCHANGED <<version, books, now, lookups>>

\* onScanMore -> setView('scanner'): a new ScannerView instance with fresh refs.
ScanMore ==
    /\ UNCHANGED aux
    /\ view = "library"
    /\ view' = "scanner"
    /\ existingISBNs' = IsbnSet(books)
    /\ last' = Other
    /\ UNCHANGED <<version, books, now, isProcessing, lastScanned, paused, timers,
                   cooldownRef, calls, lookups, resolved>>

\* ------------------------------------------------------------ library view
\* ManualEntryModal.handleManualSubmit: createBook({isbn: isbn.trim(), ...,
\* dateAdded: new Date()}) -> onAddBook.  The ISBN field is free text.
ManualAdd(code) ==
    /\ UNCHANGED aux
    /\ view = "library"
    /\ books' = addBook(books, createBook(code, now))
    /\ last' = Event("add", code, IF code \in IsbnSet(books) THEN "dup" ELSE "added",
                     "none", FALSE)
    /\ UNCHANGED <<version, view, now, debouncer, existingISBNs, calls, lookups, resolved>>

\* BookCard: onDelete(book.isbn)
DeleteBook(i) ==
    /\ UNCHANGED aux
    /\ view = "library"
    /\ i \in DOMAIN books
    /\ books' = deleteBook(books, books[i].isbn)
    /\ last' = Event("delete", books[i].isbn, "none", "none", FALSE)
    /\ UNCHANGED <<version, view, now, debouncer, existingISBNs, calls, lookups, resolved>>

\* BookCard.handleFavoriteClick: onUpdate({...book, favorite: !book.favorite})
ToggleFavorite(i) ==
    /\ UNCHANGED aux
    /\ view = "library"
    /\ i \in DOMAIN books
    /\ books' = updateBook(books, [books[i] EXCEPT !.favorite = ~@])
    /\ last' = Event("update", books[i].isbn, "none", "none", FALSE)
    /\ UNCHANGED <<version, view, now, debouncer, existingISBNs, calls, lookups, resolved>>

\* clearAllData: setBooks([]); setView('library')
ClearAllData ==
    /\ UNCHANGED aux
    /\ view = "library"
    /\ books' = <<>>
    /\ last' = Event("clear", NoCode, "none", "none", FALSE)
    /\ UNCHANGED <<version, view, now, debouncer, existingISBNs, calls, lookups, resolved>>

\* time passes
Tick ==
    /\ UNCHANGED aux
    /\ now < MaxTime
    /\ now' = now + 1
    /\ last' = Other
    /\ UNCHANGED <<version, books, view, debouncer, existingISBNs, calls, lookups, resolved>>

Next ==
    \/ \E code \in Codes : Decode(code)
    \/ \E i \in 1..MaxLookups : \E outcome \in Outcomes : LookupDone(i, outcome)
    \/ \E j \in 1..MaxTimers : TimerFire(j)
    \/ Stop
    \/ ScanMore
    \/ \E code \in ManualCodes : ManualAdd(code)
    \/ \E i \in 1..Cardinality(Codes) : DeleteBook(i)
    \/ ClearAllData
    \/ Tick

\* The scanning sessions with the library view between them.
Spec == Init /\ [][Next]_vars

\* ------------------------------------------------------------ the library store alone
\* The library view with its four store operations, any ISBN typed by hand.
InitStore ==
    /\ AuxInit
    /\ version \in Versions
    /\ books \in InitLibraries
    /\ view = "library"
    /\ now = 0
    /\ isProcessing = FALSE
    /\ lastScanned = NoCode
    /\ existingISBNs = {}
    /\ paused = FALSE
    /\ timers = <<>>
    /\ cooldownRef = 0
    /\ calls = <<>>
    /\ lookups = 0
    /\ resolved = [c \in Codes |-> 0]
    /\ last = Other

NextStore ==
    \/ \E code \in Codes : ManualAdd(code)
    \/ \E i \in 1..Cardinality(Codes) : DeleteBook(i)
    \/ \E i \in 1..Cardinality(Codes) : ToggleFavorite(i)
    \/ ClearAllData
    \/ Tick

StoreSpec == InitStore /\ [][NextStore]_vars

\* ------------------------------------------------------------ the validator alone
\* The App while none of its handlers runs.
AppAtRest ==
    /\ version = "ref"
    /\ books = <<>>
    /\ view = "library"
    /\ now = 0
    /\ isProcessing = FALSE
    /\ lastScanned = NoCode
    /\ existingISBNs = {}
    /\ paused = FALSE
    /\ timers = <<>>
    /\ cooldownRef = 0
    /\ calls = <<>>
    /\ lookups = 0
    /\ resolved = [c \in Codes |-> 0]
    /\ last = Other

\* Characters: the digits, and 10 for a character that is not a digit.
Chars == 0..10
\* "1234567890123", "9791032305690", "97801404491"
N1 == <<1, 2, 3, 4, 5, 6, 7, 8, 9, 0, 1, 2, 3>>
V979 == <<9, 7, 9, 1, 0, 3, 2, 3, 0, 5, 6, 9, 0>>
S11 == <<9, 7, 8, 0, 1, 4, 0, 4, 4, 9, 1>>
Candidates == {V1, BAD, N1, V979, S11}

InitValidator ==
    /\ AppAtRest
    /\ ResolverIdle
    /\ OpsIdle
    /\ DetailsClosed
    /\ AuthSettled
    /\ RestIdle
    /\ candidate \in Candidates
    /\ verdict = isValidISBN(candidate)
    /\ edits = 0

\* isValidISBN is applied to the string with one character replaced.
EditChar(i, ch) ==
    /\ UNCHANGED <<resolver, ops, details, auth, rest>>
    /\ edits < MaxEdits
    /\ i \in DOMAIN candidate
    /\ candidate[i] # ch
    /\ candidate' = [candidate EXCEPT ![i] = ch]
    /\ verdict' = isValidISBN(candidate')
    /\ edits' = edits + 1
    /\ UNCHANGED app

\* isValidISBN is applied to the string without its last character.
DropLast ==
    /\ UNCHANGED <<resolver, ops, details, auth, rest>>
    /\ edits < MaxEdits
    /\ Len(candidate) > 0
    /\ candidate' = SubSeq(candidate, 1, Len(candidate) - 1)
    /\ verdict' = isValidISBN(candidate')
    /\ edits' = edits + 1
    /\ UNCHANGED app

\* isValidISBN is applied to the string with one more character.
AppendChar(ch) ==
    /\ UNCHANGED <<resolver, ops, details, auth, rest>>
    /\ edits < MaxEdits
    /\ candidate' = Append(candidate, ch)
    /\ verdict' = isValidISBN(candidate')
    /\ edits' = edits + 1
    /\ UNCHANGED app

NextValidator ==
    \/ \E i \in 1..14 : \E ch \in Chars : EditChar(i, ch)
    \/ DropLast
    \/ \E ch \in Chars : AppendChar(ch)

ValidatorSpec == InitValidator /\ [][NextValidator]_vars

\* ------------------------------------------------------------ the lookup pipeline
\* fetchBookByISBN in the browser, the /api/book handler on the server, and the
\* two sources the handler queries.  What a source answers is fixed for a
\* behaviour; "error" stands for a network failure, a non-OK response or a body
\* that does not parse.
OLReplies == {"data", "empty", "error"}
LLMReplies == {"data", "null", "error"}
ResolverIsbns == {V1, V2}

InitResolver ==
    /\ AppAtRest
    /\ ValidatorIdle
    /\ OpsIdle
    /\ DetailsClosed
    /\ AuthSettled
    /\ RestIdle
    /\ olReply \in OLReplies
    /\ llmReply \in [Models -> LLMReplies]
    /\ apiKey \in BOOLEAN
    /\ reqs = [r \in Requests |-> NoRequest]

tryOpenLibraryThrows(reply) ==
    IF reply = "data" THEN "ol" ELSE IF reply = "error" THEN "throw" ELSE "none"

\* tryOpenLibrary: the record built from the answer, null when the answer has no
\* entry for the ISBN, null from the catch on any failure.
tryOpenLibrary(reply) ==
    IF reply = "data" THEN "ol" ELSE "none"

needsFallbackAlways(bookData) == TRUE

\* if (!bookData)
needsFallback(bookData) == bookData = "none"

firstModelRotating(r) == ((r - 1) % 2) + 1

\* for (const model of MODELS): every call starts at MODELS[0]
firstModel(r) == 1

LlmData(m) == IF m = 1 THEN "llm1" ELSE "llm2"

Respond(r, status, data) ==
    reqs' = [reqs EXCEPT ![r].pc = "responded", ![r].status = status,
                         ![r].data = data, ![r].inflight = {}]

\* fetchBookByISBN(isbn) up to `await fetch(apiUrl)`.
StartLookup(r, isbn) ==
    /\ reqs[r].pc = "new"
    /\ reqs' = [reqs EXCEPT ![r].pc = "sent", ![r].isbn = isbn]
    /\ UNCHANGED <<app, validator, ops, details, auth, olReply, llmReply, apiKey, rest>>

\* The request never reaches the handler: fetch rejects, the catch returns null.
FetchFails(r) ==
    /\ reqs[r].pc = "sent"
    /\ reqs' = [reqs EXCEPT ![r].pc = "settled", ![r].kind = "null"]
    /\ UNCHANGED <<app, validator, ops, details, auth, olReply, llmReply, apiKey, rest>>

\* handler up to the fetch inside `await tryOpenLibrary(isbn)`.
HandlerStart(r) ==
    /\ reqs[r].pc = "sent"
    /\ reqs' = [reqs EXCEPT ![r].pc = "primary",
                            ![r].tried = Append(@, "openlibrary"),
                            ![r].inflight = @ \cup {"openlibrary"}]
    /\ UNCHANGED <<app, validator, ops, details, auth, olReply, llmReply, apiKey, rest>>

\* tryOpenLibrary returns (or throws); the handler responds, or calls tryLLM,
\* which throws without a key and otherwise sends its first request.
PrimaryDone(r) ==
    /\ reqs[r].pc = "primary"
    /\ LET bookData == tryOpenLibrary(olReply)
       IN  IF bookData = "throw" THEN Respond(r, 500, "none")
           ELSE IF ~needsFallback(bookData) THEN Respond(r, 200, bookData)
           ELSE IF ~apiKey
                THEN reqs' = [reqs EXCEPT ![r].pc = "responded", ![r].status = 500,
                                          ![r].inflight = {},
                                          ![r].tried = Append(@, "llm")]
                ELSE reqs' = [reqs EXCEPT ![r].pc = "llm", ![r].m = firstModel(r),
                                          ![r].tried = Append(@, "llm"),
                                          ![r].inflight = (@ \ {"openlibrary"}) \cup {"llm"}]
    /\ UNCHANGED <<app, validator, ops, details, auth, olReply, llmReply, apiKey, rest>>

\* The request to model m comes back: a parsed answer is returned at once (null
\* included), a failure moves on to the next model, and after the last model
\* tryLLM returns null.
LLMDone(r) ==
    /\ reqs[r].pc = "llm"
    /\ LET m == reqs[r].m
           reply == llmReply[m]
       IN  IF reply = "data" THEN Respond(r, 200, LlmData(m))
           ELSE IF reply = "null" THEN Respond(r, 404, "none")
           ELSE IF m + 1 \in Models
                THEN reqs' = [reqs EXCEPT ![r].m = m + 1,
                                          ![r].tried = Append(@, "llm")]
                ELSE Respond(r, 404, "none")
    /\ UNCHANGED <<app, validator, ops, details, auth, olReply, llmReply, apiKey, rest>>

\* fetchBookByISBN after `await fetch(apiUrl)`: 404 -> null, other non-OK ->
\* throw -> catch -> null, OK -> createBook({..., dateAdded: new Date()}).
ClientReceive(r) ==
    /\ reqs[r].pc = "responded"
    /\ LET outcome == IF reqs[r].status = 200 THEN "found"
                      ELSE IF reqs[r].status = 404 THEN "notfound" ELSE "error"
           book == fetchBookByISBN(reqs[r].isbn, outcome)
       IN  reqs' = [reqs EXCEPT ![r].pc = "settled",
                                ![r].kind = IF book = NoBook THEN "null" ELSE "record",
                                ![r].dateAdded = book.dateAdded]
    /\ UNCHANGED <<app, validator, ops, details, auth, olReply, llmReply, apiKey, rest>>

NextResolver ==
    \/ \E r \in Requests : \E isbn \in ResolverIsbns : StartLookup(r, isbn)
    \/ \E r \in Requests : FetchFails(r)
    \/ \E r \in Requests : HandlerStart(r)
    \/ \E r \in Requests : PrimaryDone(r)
    \/ \E r \in Requests : LLMDone(r)
    \/ \E r \in Requests : ClientReceive(r)
    \/ Tick

ResolverSpec == InitResolver /\ [][NextResolver]_vars

\* ------------------------------------------------------------ the details modal
\* LibraryView with BookDetailsModal over a library of up to two books. The modal is a
\* full-screen overlay: while it is open the cards and the buttons behind it take no
\* click.
DetailCodes == {V1, V2}
StatusChoices == {"reading", "read"}
Stars == 1..5
NoteTexts == {"", "n"}

InitDetails ==
    /\ AppAtRest
    /\ ValidatorIdle
    /\ ResolverIdle
    /\ OpsIdle
    /\ DetailsClosed
    /\ AuthSettled
    /\ RestIdle

statusChangedRestamped(edited, status) ==
    [edited EXCEPT !.readingStatus = status, !.dateAdded = @ + 1]

\* handleStatusChange: { ...editedBook, readingStatus: status }
statusChanged(edited, status) == [edited EXCEPT !.readingStatus = status]

ratingChangedAdds(edited, rating) == [edited EXCEPT !.rating = @ + rating]

\* handleRatingChange: editedBook.rating === rating ? null : rating
ratingChanged(edited, rating) ==
    [edited EXCEPT !.rating = IF @ = rating THEN NoRating ELSE rating]

\* LibraryView's onUpdate: onUpdateBook(updated); setSelectedBook(updated), after the
\* modal's setEditedBook(updated)
ModalUpdate(updated) ==
    /\ books' = updateBook(books, updated)
    /\ editedBook' = updated
    /\ last' = Event("update", updated.isbn, "none", "none", FALSE)
    /\ UNCHANGED <<version, view, now, debouncer, existingISBNs, calls, lookups, resolved>>
    /\ UNCHANGED <<validator, resolver, ops, auth, rest>>

\* a card or a list item is clicked: setSelectedBook(book), and the modal mounts with
\* useState(book)
OpenDetails(i) ==
    /\ view = "library"
    /\ editedBook = NoBook
    /\ i \in DOMAIN books
    /\ editedBook' = books[i]
    /\ last' = Other
    /\ UNCHANGED <<version, books, view, now, debouncer, existingISBNs, calls, lookups, resolved>>
    /\ UNCHANGED <<validator, resolver, ops, auth, rest>>

\* onClose: setSelectedBook(null)
CloseDetails ==
    /\ editedBook # NoBook
    /\ editedBook' = NoBook
    /\ last' = Other
    /\ UNCHANGED <<version, books, view, now, debouncer, existingISBNs, calls, lookups, resolved>>
    /\ UNCHANGED <<validator, resolver, ops, auth, rest>>

StatusChange(status) ==
    /\ editedBook # NoBook
    /\ ModalUpdate(statusChanged(editedBook, status))

RatingChange(rating) ==
    /\ editedBook # NoBook
    /\ ModalUpdate(ratingChanged(editedBook, rating))

\* handleFavoriteToggle
FavoriteToggle ==
    /\ editedBook # NoBook
    /\ ModalUpdate([editedBook EXCEPT !.favorite = ~@])

\* handleNotesChange: the text goes to the modal's copy only
NotesChange(notes) ==
    /\ editedBook # NoBook
    /\ editedBook' = [editedBook EXCEPT !.notes = notes]
    /\ last' = Other
    /\ UNCHANGED <<version, books, view, now, debouncer, existingISBNs, calls, lookups, resolved>>
    /\ UNCHANGED <<validator, resolver, ops, auth, rest>>

\* handleNotesSave, on blur of the text area: onUpdate(editedBook)
NotesSave ==
    /\ editedBook # NoBook
    /\ ModalUpdate(editedBook)

\* handleDelete: onDelete(book.isbn); onClose()
ModalDelete ==
    /\ editedBook # NoBook
    /\ books' = deleteBook(books, editedBook.isbn)
    /\ editedBook' = NoBook
    /\ last' = Event("delete", editedBook.isbn, "none", "none", FALSE)
    /\ UNCHANGED <<version, view, now, debouncer, existingISBNs, calls, lookups, resolved>>
    /\ UNCHANGED <<validator, resolver, ops, auth, rest>>

NextDetails ==
    \/ \E code \in DetailCodes : DetailsClosed /\ ManualAdd(code)
    \/ \E i \in 1..Cardinality(DetailCodes) : DetailsClosed /\ DeleteBook(i)
    \/ \E i \in 1..Cardinality(DetailCodes) : DetailsClosed /\ ToggleFavorite(i)
    \/ \E i \in 1..Cardinality(DetailCodes) : OpenDetails(i)
    \/ CloseDetails
    \/ \E status \in StatusChoices : StatusChange(status)
    \/ \E rating \in Stars : RatingChange(rating)
    \/ FavoriteToggle
    \/ \E notes \in NoteTexts : NotesChange(notes)
    \/ NotesSave
    \/ ModalDelete
    \/ Tick

DetailsSpec == InitDetails /\ [][NextDetails]_vars

\* ------------------------------------------------------------ authentication
\* The App that keeps the library on the server: every library request carries the
\* stored credential, and the server may answer any of them with 401.
MaxInflight == 2
AuthCodes == {V1}
Statuses == {200, 401, 500}
Kinds == {"fetchBooks", "addBookRemote", "updateBookRemote", "deleteBookRemote",
          "deleteAllBooksRemote"}

\* useState(getAuthToken()), view 'login', books []; the auth effect of the first
\* render calls fetchBooks when there is a token
InitAuth ==
    /\ ValidatorIdle
    /\ ResolverIdle
    /\ OpsIdle
    /\ DetailsClosed
    /\ credential \in {NoToken, Token}
    /\ authToken = credential
    /\ inflight = IF credential = NoToken THEN <<>> ELSE <<"fetchBooks">>
    /\ lastReply = NoReply
    /\ RestIdle
    /\ version = "ref"
    /\ books = <<>>
    /\ view = "login"
    /\ now = 0
    /\ isProcessing = FALSE
    /\ lastScanned = NoCode
    /\ existingISBNs = {}
    /\ paused = FALSE
    /\ timers = <<>>
    /\ cooldownRef = 0
    /\ calls = <<>>
    /\ lookups = 0
    /\ resolved = [c \in Codes |-> 0]
    /\ last = Other

\* renderView: LoginView whenever there is no token, whatever `view` says
renderView == IF authToken = NoToken THEN "login" ELSE view

isUnauthorizedOnLoad(kind, status) == kind = "fetchBooks" /\ status = 401

\* libraryService: `response.status === 401` throws 'Unauthorized', which the catch
\* of the calling operation in App recognises
isUnauthorized(kind, status) == status = 401

\* what stays of the scanner and of the rest of App in the actions below
authFrame == <<version, now, isProcessing, lastScanned, paused, timers, cooldownRef,
               calls, lookups, resolved, last>>

\* handleLogin: login() stores the token it got, then setAuthToken(token) and
\* setView('scanner'); the auth effect then calls fetchBooks. Wrong credentials only
\* set the error message.
Login(accepted) ==
    /\ authToken = NoToken
    /\ Len(inflight) < MaxInflight
    /\ IF accepted
       THEN /\ credential' = Token
            /\ authToken' = Token
            /\ view' = "scanner"
            /\ existingISBNs' = IsbnSet(books)
            /\ inflight' = Append(inflight, "fetchBooks")
       ELSE UNCHANGED <<credential, authToken, view, existingISBNs, inflight>>
    /\ lastReply' = [kind |-> "login", status |-> IF accepted THEN 200 ELSE 401]
    /\ UNCHANGED <<books, authFrame>>
    /\ UNCHANGED <<validator, resolver, ops, details, rest>>

\* onStop / onScanMore
Navigate(to) ==
    /\ authToken # NoToken
    /\ view \in {"scanner", "library"}
    /\ view # to
    /\ view' = to
    /\ existingISBNs' = IF to = "scanner" THEN IsbnSet(books) ELSE {}
    /\ lastReply' = NoReply
    /\ UNCHANGED <<books, authFrame, authToken, credential, inflight>>
    /\ UNCHANGED <<validator, resolver, ops, details, rest>>

\* an operation of App: the local change, then the request
Send(kind, newBooks, newView) ==
    /\ authToken # NoToken
    /\ view = "library"
    /\ Len(inflight) < MaxInflight
    /\ books' = newBooks
    /\ view' = newView
    /\ inflight' = Append(inflight, kind)
    /\ lastReply' = NoReply
    /\ UNCHANGED <<existingISBNs, authFrame, authToken, credential>>
    /\ UNCHANGED <<validator, resolver, ops, details, rest>>

AuthAdd(code) ==
    Send("addBookRemote", addBook(books, createBook(code, now)), view)

AuthUpdate(i) ==
    /\ i \in DOMAIN books
    /\ Send("updateBookRemote", updateBook(books, [books[i] EXCEPT !.favorite = ~@]), view)

AuthDelete(i) ==
    /\ i \in DOMAIN books
    /\ Send("deleteBookRemote", deleteBook(books, books[i].isbn), view)

\* clearAllData: setBooks([]); setView('library'); deleteAllBooksRemote()
AuthClearAll ==
    Send("deleteAllBooksRemote", <<>>, "library")

\* The answer to request j arrives. 401: clearAuthToken(); setAuthToken(null), and
\* for fetchBooks setView('login'); when that changes the token, the auth effect
\* runs setBooks([]) and setView('login'). fetchBooks with data: setBooks(data);
\* setView('scanner').
Reply(j, status) ==
    /\ j \in DOMAIN inflight
    /\ inflight' = RemoveAt(inflight, j)
    /\ lastReply' = [kind |-> inflight[j], status |-> status]
    /\ IF isUnauthorized(inflight[j], status)
       THEN /\ credential' = NoToken
            /\ authToken' = NoToken
            /\ books' = IF authToken # NoToken THEN <<>> ELSE books
            /\ view' = IF authToken # NoToken \/ inflight[j] = "fetchBooks"
                        THEN "login" ELSE view
            /\ existingISBNs' = {}
       ELSE IF inflight[j] = "fetchBooks" /\ status = 200
       THEN /\ books' = stored
            /\ view' = "scanner"
            /\ existingISBNs' = IF authToken # NoToken THEN IsbnSet(stored) ELSE {}
            /\ UNCHANGED <<credential, authToken>>
       ELSE UNCHANGED <<credential, authToken, books, view, existingISBNs>>
    /\ UNCHANGED authFrame
    /\ UNCHANGED <<validator, resolver, ops, details, rest>>

NextAuth ==
    \/ \E accepted \in BOOLEAN : Login(accepted)
    \/ \E to \in {"scanner", "library"} : Navigate(to)
    \/ \E code \in AuthCodes : AuthAdd(code)
    \/ \E i \in 1..Cardinality(AuthCodes) : AuthUpdate(i)
    \/ \E i \in 1..Cardinality(AuthCodes) : AuthDelete(i)
    \/ AuthClearAll
    \/ \E j \in 1..MaxInflight : \E status \in Statuses : Reply(j, status)

AuthSpec == InitAuth /\ [][NextAuth]_vars

\* ------------------------------------------------------------ export, import and migration
\* JavaScript values, as far as book records hold them: k is the type, s the string,
\* n the number (1 and 0 for true and false), l the array of strings.
JsValue(k, str, n, l) == [k |-> k, s |-> str, n |-> n, l |-> l]
Undefined == JsValue("undefined", "", 0, <<>>)
Null == JsValue("null", "", 0, <<>>)
NaN == JsValue("nan", "", 0, <<>>)
Str(str) == JsValue("string", str, 0, <<>>)
Num(n) == JsValue("number", "", n, <<>>)
Bool(b) == JsValue("boolean", "", IF b THEN 1 ELSE 0, <<>>)
Arr(l) == JsValue("array", "", 0, l)

\* the values `||` replaces; an array is truthy even when empty
falsy(v) ==
    \/ v.k \in {"undefined", "null", "nan"}
    \/ v.k = "string" /\ v.s = ""
    \/ v.k \in {"number", "boolean"} /\ v.n = 0

\* a || b
Or(a, b) == IF falsy(a) THEN b ELSE a

\* a ?? b
Coalesce(a, b) == IF a.k \in {"undefined", "null"} THEN b ELSE a

\* book.key: undefined when the object has no such key
Get(book, key) == IF key \in DOMAIN book THEN book[key] ELSE Undefined

\* new Date().toISOString() at the time of a load
LoadTime == Str("load")

migrateBookNoLanguage(book) ==
    [isbn |-> Or(Get(book, "isbn"), Str("")),
     title |-> Or(Get(book, "title"), Str("Unknown")),
     authors |-> Or(Get(book, "authors"), Arr(<<>>)),
     coverUrl |-> Or(Get(book, "coverUrl"), Str("")),
     genre |-> Or(Get(book, "genre"), Arr(<<>>)),
     dateAdded |-> Or(Get(book, "dateAdded"), LoadTime),
     description |-> Or(Get(book, "description"), Str("")),
     pageCount |-> Or(Get(book, "pageCount"), Num(0)),
     readingStatus |-> Or(Get(book, "readingStatus"), Str("unread")),
     rating |-> Coalesce(Get(book, "rating"), Null),
     notes |-> Or(Get(book, "notes"), Str("")),
     favorite |-> Or(Get(book, "favorite"), Bool(FALSE)),
     publisher |-> Get(book, "publisher"),
     publishYear |-> Get(book, "publishYear")]

migrateBookResetsStatus(book) ==
    [isbn |-> Or(Get(book, "isbn"), Str("")),
     title |-> Or(Get(book, "title"), Str("Unknown")),
     authors |-> Or(Get(book, "authors"), Arr(<<>>)),
     coverUrl |-> Or(Get(book, "coverUrl"), Str("")),
     genre |-> Or(Get(book, "genre"), Arr(<<>>)),
     dateAdded |-> Or(Get(book, "dateAdded"), LoadTime),
     description |-> Or(Get(book, "description"), Str("")),
     pageCount |-> Or(Get(book, "pageCount"), Num(0)),
     readingStatus |-> Str("unread"),
     rating |-> Coalesce(Get(book, "rating"), Null),
     notes |-> Or(Get(book, "notes"), Str("")),
     favorite |-> Or(Get(book, "favorite"), Bool(FALSE)),
     publisher |-> Get(book, "publisher"),
     publishYear |-> Get(book, "publishYear"),
     language |-> Get(book, "language")]

migrateBook(book) ==
    [isbn |-> Or(Get(book, "isbn"), Str("")),
     title |-> Or(Get(book, "title"), Str("Unknown")),
     authors |-> Or(Get(book, "authors"), Arr(<<>>)),
     coverUrl |-> Or(Get(book, "coverUrl"), Str("")),
     genre |-> Or(Get(book, "genre"), Arr(<<>>)),
     dateAdded |-> Or(Get(book, "dateAdded"), LoadTime),
     description |-> Or(Get(book, "description"), Str("")),
     pageCount |-> Or(Get(book, "pageCount"), Num(0)),
     readingStatus |-> Or(Get(book, "readingStatus"), Str("unread")),
     rating |-> Coalesce(Get(book, "rating"), Null),
     notes |-> Or(Get(book, "notes"), Str("")),
     favorite |-> Or(Get(book, "favorite"), Bool(FALSE)),
     publisher |-> Get(book, "publisher"),
     publishYear |-> Get(book, "publishYear"),
     language |-> Get(book, "language")]

\* JSON.stringify of a value: NaN is written as null
jsonOf(v) == IF v.k = "nan" THEN Null ELSE v

\* JSON.stringify(books): per book its members, a key whose value is undefined is
\* left out. The text is kept as the array of the books' sets of members.
JSONstringify(bs) ==
    [i \in DOMAIN bs |->
        {<<key, jsonOf(bs[i][key])>> : key \in {c \in DOMAIN bs[i] : bs[i][c].k # "undefined"}}]

\* JSON.parse: an object per set of members
JSONparse(text) ==
    [i \in DOMAIN text |->
        [key \in {member[1] : member \in text[i]} |->
            (CHOOSE member \in text[i] : member[1] = key)[2]]]

\* useLocalStorage's initial state for 'my-shelf-books': parse, migrate every book
loadBooks(text) ==
    LET parsed == JSONparse(text)
    IN  [i \in DOMAIN parsed |-> migrateBook(parsed[i])]

\* createBook(partial) as fetchBookByISBN and the manual entry form call it
createRecord(isbn, title, publisher, publishYear, language) ==
    [isbn |-> Str(isbn), title |-> title, authors |-> Arr(<<"Unknown Author">>),
     genre |-> Arr(<<"Uncategorized">>), description |-> Str(""),
     coverUrl |-> Str("cover"), dateAdded |-> Str("added"), pageCount |-> Num(0),
     publisher |-> publisher, publishYear |-> publishYear, language |-> language,
     readingStatus |-> Str("unread"), rating |-> Null, notes |-> Str(""),
     favorite |-> Bool(FALSE)]

\* Records a lookup or the manual form can add: one with unknown publisher and an
\* unparsed year, one with all of them, one whose payload carried no title.
NewRecords ==
    {createRecord("5", Str("Ivanhoe"), Undefined, Null, Str("eng")),
     createRecord("6", Str("Emma"), Str("Ace"), Num(1815), Undefined),
     createRecord("7", Undefined, Undefined, Undefined, Undefined)}

\* What the storage can hold when the page loads: a record of the current format
\* that has been edited, a record of the first format (no reading status, rating,
\* notes, favourite), and one of the first format with an empty title.
V2Stored ==
    {<<"isbn", Str("1")>>, <<"title", Str("Dune")>>, <<"authors", Arr(<<"Herbert">>)>>,
     <<"coverUrl", Str("cover")>>, <<"genre", Arr(<<"SF">>)>>, <<"dateAdded", Str("d1")>>,
     <<"description", Str("sand")>>, <<"pageCount", Num(412)>>,
     <<"readingStatus", Str("read")>>, <<"rating", Num(4)>>, <<"notes", Str("n")>>,
     <<"favorite", Bool(TRUE)>>, <<"publisher", Str("Ace")>>, <<"publishYear", Num(1965)>>,
     <<"language", Str("eng")>>}

V1Stored ==
    {<<"isbn", Str("3")>>, <<"title", Str("Ulysses")>>, <<"authors", Arr(<<"Joyce">>)>>,
     <<"coverUrl", Str("cover")>>, <<"genre", Arr(<<>>)>>, <<"dateAdded", Str("d0")>>,
     <<"description", Str("")>>, <<"pageCount", Num(730)>>}

V1StoredNoTitle ==
    {<<"isbn", Str("4")>>, <<"title", Str("")>>, <<"authors", Arr(<<"Anon">>)>>,
     <<"coverUrl", Str("")>>, <<"genre", Arr(<<"Verse">>)>>, <<"dateAdded", Str("d0")>>,
     <<"description", Str("")>>, <<"pageCount", Num(0)>>}

StoredRecords == {V2Stored, V1Stored, V1StoredNoTitle}

MaxShelf == 2

StoredTexts == UNION {[1..n -> StoredRecords] : n \in 0..MaxShelf}

\* what the steps of this part leave alone
outsideMigration ==
    <<app, validator, resolver, ops, details, auth, normalizer, fallback, tabs, server>>

\* the page loads with some text in the storage
InitMigration ==
    /\ AppAtRest
    /\ ValidatorIdle
    /\ ResolverIdle
    /\ OpsIdle
    /\ DetailsClosed
    /\ AuthSettled
    /\ NormalizerIdle
    /\ FallbackIdle
    /\ TabsIdle
    /\ ServerIdle
    /\ raw \in StoredTexts
    /\ storedValue = loadBooks(raw)
    /\ localStorage = JSONstringify(storedValue)
    /\ file = NoFile
    /\ exported = <<>>
    /\ step = "load"

\* setValue: the new books go to the state and, as text, to the storage
setValue(value) ==
    /\ storedValue' = value
    /\ localStorage' = JSONstringify(value)

\* addBook with a record that a lookup or the manual form made
AddRecord(rec) ==
    /\ Len(storedValue) < MaxShelf
    /\ setValue(IF \E i \in DOMAIN storedValue : storedValue[i]["isbn"] = rec["isbn"]
                THEN storedValue
                ELSE <<rec>> \o storedValue)
    /\ step' = "add"
    /\ UNCHANGED <<raw, file, exported>>
    /\ UNCHANGED outsideMigration

\* a card's favourite button
FlipFavorite(i) ==
    /\ i \in DOMAIN storedValue
    /\ setValue([storedValue EXCEPT ![i] =
                    [key \in DOMAIN @ |->
                        IF key = "favorite" THEN Bool(@[key].n = 0) ELSE @[key]]])
    /\ step' = "edit"
    /\ UNCHANGED <<raw, file, exported>>
    /\ UNCHANGED outsideMigration

\* SettingsView: exportToJSON(books)
Export ==
    /\ file' = [has |-> TRUE, text |-> JSONstringify(storedValue)]
    /\ exported' = storedValue
    /\ step' = "export"
    /\ UNCHANGED <<raw, storedValue, localStorage>>
    /\ UNCHANGED outsideMigration

\* the page is loaded again
Reload ==
    /\ raw' = localStorage
    /\ storedValue' = loadBooks(localStorage)
    /\ localStorage' = JSONstringify(storedValue')
    /\ step' = "reload"
    /\ UNCHANGED <<file, exported>>
    /\ UNCHANGED outsideMigration

\* SettingsView.handleImport with the exported file: the parsed array is written to
\* the storage as text and the page reloads
Import ==
    /\ file.has
    /\ raw' = JSONstringify(JSONparse(file.text))
    /\ storedValue' = loadBooks(raw')
    /\ localStorage' = JSONstringify(storedValue')
    /\ step' = "import"
    /\ UNCHANGED <<file, exported>>
    /\ UNCHANGED outsideMigration

NextMigration ==
    \/ \E rec \in NewRecords : AddRecord(rec)
    \/ \E i \in 1..MaxShelf : FlipFavorite(i)
    \/ Export
    \/ Reload
    \/ Import

MigrationSpec == InitMigration /\ [][NextMigration]_vars

\* ------------------------------------------------------------ the primary source's record
\* /api/book with an answer from Open Library, and fetchBookByISBN on the response.
MaxSubjects == 6
SubjectNames == <<"s1", "s2", "s3", "s4", "s5", "s6", "s7", "s8">>
AuthorNames == <<"a1", "a2">>

\* the members of Open Library's record the handler reads, each present or not
Titles == {Undefined, Str(""), Str("T")}
AuthorLists == {Undefined} \cup {Arr(SubSeq(AuthorNames, 1, n)) : n \in 0..2}
SubjectLists == {Undefined} \cup {Arr(SubSeq(SubjectNames, 1, n)) : n \in {0, 1, 5, MaxSubjects}}
Covers == {Undefined, Str("large.jpg")}

OLRecord(title, authors, subjects, cover) ==
    [title |-> title, authors |-> authors, subjects |-> subjects, cover |-> cover]

OLRecords ==
    {OLRecord(t, a, g, c) : t \in Titles, a \in AuthorLists, g \in SubjectLists, c \in Covers}

outsideNormalizer ==
    <<app, validator, resolver, ops, details, auth, migration, fallback, tabs, server>>

InitNormalizer ==
    /\ AppAtRest
    /\ ValidatorIdle
    /\ ResolverIdle
    /\ OpsIdle
    /\ DetailsClosed
    /\ AuthSettled
    /\ MigrationIdle
    /\ FallbackIdle
    /\ TabsIdle
    /\ ServerIdle
    /\ olBook \in OLRecords
    /\ lookedUp \in ResolverIsbns
    /\ record = NoRecord

\* `https://covers.openlibrary.org/b/isbn/${isbn}-L.jpg`
coverUrlOf(isbn) == [site |-> "covers.openlibrary.org/b/isbn", isbn |-> isbn, size |-> "L"]

\* list.slice(0, 5)
slice5(l) == SubSeq(l, 1, IF Len(l) < 5 THEN Len(l) ELSE 5)

\* list?.map(...) || default: the default only when there is no list at all, since an
\* empty array is truthy
defaultWhenMissing(list, default) == Or(list, default)

\* olBook.subjects?.slice(0, 5).map(s => s.name) || ['Uncategorized']
genreOf(subjects) ==
    defaultWhenMissing(IF subjects.k = "array" THEN Arr(slice5(subjects.l)) ELSE subjects,
                       Arr(<<"Uncategorized">>))

\* tryOpenLibrary's return value for a record that is there, then the handler's
\* { ...bookData, isbn, coverUrl, source }
normalized(data, isbn) ==
    [title |-> Or(data.title, Str("Unknown Title")),
     authors |-> defaultWhenMissing(data.authors, Arr(<<"Unknown Author">>)),
     genre |-> genreOf(data.subjects),
     isbn |-> isbn,
     coverUrl |-> coverUrlOf(isbn),
     source |-> "openlibrary"]

\* fetchBookByISBN on the 200 response: createBook({ isbn: data.isbn, title: data.title,
\* authors: data.authors || [...], genre: data.genre || [...], coverUrl: data.coverUrl || ... })
recordOf(data) ==
    [found |-> TRUE,
     isbn |-> data.isbn,
     title |-> data.title,
     authors |-> defaultWhenMissing(data.authors, Arr(<<"Unknown Author">>)),
     genre |-> defaultWhenMissing(data.genre, Arr(<<"Uncategorized">>)),
     coverUrl |-> data.coverUrl]

\* a lookup that the primary source answers
LookupAtPrimary ==
    /\ record = NoRecord
    /\ record' = recordOf(normalized(olBook, lookedUp))
    /\ UNCHANGED <<olBook, lookedUp>>
    /\ UNCHANGED outsideNormalizer

\* another book is looked up
AnotherBook(data, isbn) ==
    /\ record # NoRecord
    /\ olBook' = data
    /\ lookedUp' = isbn
    /\ record' = NoRecord
    /\ UNCHANGED outsideNormalizer

NextNormalizer ==
    \/ LookupAtPrimary
    \/ \E data \in OLRecords : \E isbn \in ResolverIsbns : AnotherBook(data, isbn)

NormalizerSpec == InitNormalizer /\ [][NextNormalizer]_vars

\* ------------------------------------------------------------ the fallback's models
\* tryLLM with a key configured. A content is a sequence of pieces of text: the
\* fence markers, line breaks, a JSON object, the JSON literal null, other words.
FenceJson == "fence-json"
Fence == "fence"
Newline == "newline"
Prose == "Here is the book:"
NullText == "null"
ObjectText(m) == IF m = 1 THEN "{book by model 1}" ELSE "{book by model 2}"

Contents(m) ==
    {<<ObjectText(m)>>,
     <<FenceJson, Newline, ObjectText(m), Newline, Fence>>,
     <<Fence, ObjectText(m), Fence, Newline>>,
     <<Prose, Newline, FenceJson, Newline, ObjectText(m), Newline, Fence>>,
     <<Prose>>,
     <<NullText>>,
     <<>>}

\* what a model can answer: the fetch rejects, the response is not OK, or it is OK
\* and carries a content
Answers(m) ==
    {[ok |-> FALSE, rejects |-> TRUE, content |-> <<>>],
     [ok |-> FALSE, rejects |-> FALSE, content |-> <<>>]}
    \cup {[ok |-> TRUE, rejects |-> FALSE, content |-> c] : c \in Contents(m)}

RECURSIVE removeMarker(_, _)
\* content.replace(marker and an optional line break, globally): every marker goes,
\* with the line break after it
removeMarker(content, marker) ==
    IF content = <<>> THEN <<>>
    ELSE IF Head(content) = marker
         THEN IF Len(content) >= 2 /\ content[2] = Newline
              THEN removeMarker(SubSeq(content, 3, Len(content)), marker)
              ELSE removeMarker(Tail(content), marker)
         ELSE <<Head(content)>> \o removeMarker(Tail(content), marker)

RECURSIVE trimStart(_)
trimStart(content) ==
    IF content # <<>> /\ Head(content) = Newline THEN trimStart(Tail(content)) ELSE content

RECURSIVE trimEnd(_)
trimEnd(content) ==
    IF content # <<>> /\ content[Len(content)] = Newline
    THEN trimEnd(SubSeq(content, 1, Len(content) - 1))
    ELSE content

\* the json fence goes first, then the bare fence, then trim()
stripFences(content) ==
    trimEnd(trimStart(removeMarker(removeMarker(content, FenceJson), Fence)))

\* JSON.parse does not throw: the text is one JSON value
parses(text) == \E m \in Models : text = <<ObjectText(m)>> \/ text = <<NullText>>

outsideFallback ==
    <<app, validator, resolver, ops, details, auth, migration, normalizer, tabs, server>>

InitFallback ==
    /\ AppAtRest
    /\ ValidatorIdle
    /\ ResolverIdle
    /\ OpsIdle
    /\ DetailsClosed
    /\ AuthSettled
    /\ MigrationIdle
    /\ NormalizerIdle
    /\ TabsIdle
    /\ ServerIdle
    /\ answers \in {a \in [Models -> UNION {Answers(m) : m \in Models}] :
                      \A m \in Models : a[m] \in Answers(m)}
    /\ queried = <<>>
    /\ asking = 0
    /\ llmResult = Pending

afterFailureGivesUp(m) == 0

\* `continue`: the loop goes to the next of MODELS, and ends after the last
afterFailure(m) == IF m + 1 \in Models THEN m + 1 ELSE 0

\* the request to a model is sent: fetch(...) in the loop body
Ask(m) ==
    /\ ~llmResult.done
    /\ asking = 0
    /\ m = IF queried = <<>> THEN firstModel(1) ELSE afterFailure(queried[Len(queried)])
    /\ m \in Models
    /\ asking' = m
    /\ queried' = Append(queried, m)
    /\ UNCHANGED <<answers, llmResult>>
    /\ UNCHANGED outsideFallback

\* the loop body after the fetch: not OK or a throw goes on to the next model, a
\* content that parses is returned; after the last model, `return null`
Answered ==
    /\ asking # 0
    /\ LET a == answers[asking]
           text == stripFences(a.content)
       IN  IF a.ok /\ parses(text)
           THEN llmResult' = [done |-> TRUE, payload |-> text]
           ELSE IF afterFailure(asking) = 0
                THEN llmResult' = [done |-> TRUE, payload |-> <<NullText>>]
                ELSE UNCHANGED llmResult
    /\ asking' = 0
    /\ UNCHANGED <<answers, queried>>
    /\ UNCHANGED outsideFallback

NextFallback ==
    \/ \E m \in Models : Ask(m)
    \/ Answered

FallbackSpec == InitFallback /\ [][NextFallback]_vars

\* ------------------------------------------------------------ two tabs
\* Two tabs of the localStorage-backed App. A write by one tab changes the shared
\* item and queues a storage event, carrying the new text, for the other tab.
MaxPending == 2
TabRecords ==
    {createRecord("5", Str("Ivanhoe"), Undefined, Null, Str("eng")),
     createRecord("6", Str("Emma"), Str("Ace"), Num(1815), Undefined)}

outsideTabs ==
    <<app, validator, resolver, ops, details, auth, migration, normalizer, fallback,
      server>>

InitTabs ==
    /\ AppAtRest
    /\ ValidatorIdle
    /\ ResolverIdle
    /\ OpsIdle
    /\ DetailsClosed
    /\ AuthSettled
    /\ MigrationIdle
    /\ NormalizerIdle
    /\ FallbackIdle
    /\ TabsIdle
    /\ ServerIdle

\* setValue in tab t: setStoredValue(valueToStore); localStorage.setItem(key, text).
\* The browser queues a storage event for the other tab when the item changed.
tabWrite(t, valueToStore) ==
    LET text == JSONstringify(valueToStore)
    IN  /\ \A o \in Tabs \ {t} : text # sharedItem => Len(events[o]) < MaxPending
        /\ tabValue' = [tabValue EXCEPT ![t] = valueToStore]
        /\ sharedItem' = text
        /\ events' = [o \in Tabs |->
                        IF o # t /\ text # sharedItem THEN Append(events[o], text) ELSE events[o]]
        /\ UNCHANGED outsideTabs

\* addBook in tab t
TabAdd(t, rec) ==
    tabWrite(t, IF \E i \in DOMAIN tabValue[t] : tabValue[t][i]["isbn"] = rec["isbn"]
                THEN tabValue[t]
                ELSE <<rec>> \o tabValue[t])

\* deleteBook in tab t
TabDelete(t, i) ==
    /\ i \in DOMAIN tabValue[t]
    /\ tabWrite(t, SelectSeq(tabValue[t], LAMBDA b : b["isbn"] # tabValue[t][i]["isbn"]))

\* handleStorageChange in tab t: setStoredValue(JSON.parse(e.newValue).map(migrateBook))
TabStorageEvent(t) ==
    /\ events[t] # <<>>
    /\ tabValue' = [tabValue EXCEPT ![t] = loadBooks(Head(events[t]))]
    /\ events' = [events EXCEPT ![t] = Tail(@)]
    /\ UNCHANGED sharedItem
    /\ UNCHANGED outsideTabs

NextTabs ==
    \/ \E t \in Tabs : \E rec \in TabRecords : TabAdd(t, rec)
    \/ \E t \in Tabs : \E i \in 1..Cardinality(TabRecords) : TabDelete(t, i)
    \/ \E t \in Tabs : TabStorageEvent(t)

TabsSpec == InitTabs /\ [][NextTabs]_vars

\* ------------------------------------------------------------ the login and library endpoints
\* A text is a sequence of one-character strings.

\* the names and passwords the environment and the callers use
Names == {<<"p">>, <<"p", ":", "x">>}

CharCode == ("u" :> 117) @@ ("p" :> 112) @@ ("x" :> 120) @@ (":" :> 58)

CharOf(code) == CHOOSE c \in DOMAIN CharCode : CharCode[c] = code

\* Buffer.from(text): the bytes of the text
utf8(text) == [i \in 1..Len(text) |-> CharCode[text[i]]]

\* buffer.toString('utf-8')
fromUtf8(bytes) == [i \in 1..Len(bytes) |-> CharOf(bytes[i])]

Alphabet ==
    <<"A", "B", "C", "D", "E", "F", "G", "H", "I", "J", "K", "L", "M",
      "N", "O", "P", "Q", "R", "S", "T", "U", "V", "W", "X", "Y", "Z",
      "a", "b", "c", "d", "e", "f", "g", "h", "i", "j", "k", "l", "m",
      "n", "o", "p", "q", "r", "s", "t", "u", "v", "w", "x", "y", "z",
      "0", "1", "2", "3", "4", "5", "6", "7", "8", "9", "+", "/">>

Pad == "="

digit(n) == Alphabet[n + 1]

valueOf(c) == (CHOOSE i \in 1..Len(Alphabet) : Alphabet[i] = c) - 1

\* buffer.toString('base64'): three bytes make four digits, the rest is padded
RECURSIVE toBase64(_)
toBase64(bytes) ==
    IF Len(bytes) = 0 THEN <<>>
    ELSE IF Len(bytes) = 1 THEN
        LET n == bytes[1] * 65536
        IN <<digit(n \div 262144), digit((n \div 4096) % 64), Pad, Pad>>
    ELSE IF Len(bytes) = 2 THEN
        LET n == bytes[1] * 65536 + bytes[2] * 256
        IN <<digit(n \div 262144), digit((n \div 4096) % 64), digit((n \div 64) % 64), Pad>>
    ELSE
        LET n == bytes[1] * 65536 + bytes[2] * 256 + bytes[3]
        IN <<digit(n \div 262144), digit((n \div 4096) % 64),
             digit((n \div 64) % 64), digit(n % 64)>>
           \o toBase64(SubSeq(bytes, 4, Len(bytes)))

RECURSIVE bytesOf(_)
bytesOf(digits) ==
    IF Len(digits) < 2 THEN <<>>
    ELSE IF Len(digits) = 2 THEN
        LET n == valueOf(digits[1]) * 262144 + valueOf(digits[2]) * 4096
        IN <<n \div 65536>>
    ELSE IF Len(digits) = 3 THEN
        LET n == valueOf(digits[1]) * 262144 + valueOf(digits[2]) * 4096
                 + valueOf(digits[3]) * 64
        IN <<n \div 65536, (n \div 256) % 256>>
    ELSE
        LET n == valueOf(digits[1]) * 262144 + valueOf(digits[2]) * 4096
                 + valueOf(digits[3]) * 64 + valueOf(digits[4])
        IN <<n \div 65536, (n \div 256) % 256, n % 256>>
           \o bytesOf(SubSeq(digits, 5, Len(digits)))

\* Buffer.from(token, 'base64'): the padding carries no bytes
fromBase64(token) == bytesOf(SelectSeq(token, LAMBDA c : c # Pad))

\* text.split(':')
RECURSIVE split(_)
split(text) ==
    IF \A i \in 1..Len(text) : text[i] # ":" THEN <<text>>
    ELSE LET k == CHOOSE i \in 1..Len(text) :
                      text[i] = ":" /\ \A j \in 1..(i - 1) : text[j] # ":"
         IN <<SubSeq(text, 1, k - 1)>> \o split(SubSeq(text, k + 1, Len(text)))

\* const [username, password] = parts: the element at i, undefined past the end
element(parts, i) == IF i <= Len(parts) THEN parts[i] ELSE Missing

buildToken(username, password) == toBase64(utf8(username \o <<":">> \o password))

\* the Authorization header libraryService sends with a token
Bearer(token) == <<"Bearer ">> \o token

\* header.replace('Bearer ', ''): the first occurrence goes
removeBearer(header) ==
    IF \E i \in 1..Len(header) : header[i] = "Bearer "
    THEN LET k == CHOOSE i \in 1..Len(header) :
                      header[i] = "Bearer " /\ \A j \in 1..(i - 1) : header[j] # "Bearer "
         IN SubSeq(header, 1, k - 1) \o SubSeq(header, k + 1, Len(header))
    ELSE header

isAuthorized(header) ==
    LET token == IF header = Missing THEN Missing ELSE removeBearer(header)
    IN IF token = Missing \/ token = EmptyText THEN FALSE
       ELSE LET parts == split(fromUtf8(fromBase64(token)))
            IN element(parts, 1) = APP_USER /\ element(parts, 2) = APP_PASS

Methods == {"GET", "POST", "DELETE", "OPTIONS", "PUT"}

\* request bodies: two books and one without an isbn
Bodies == {[isbn |-> "5"], [isbn |-> "6"], [isbn |-> NoIsbn]}

\* the Authorization headers of the callers: none, or the token of some name and password
Headers == {Missing} \cup {Bearer(buildToken(a, b)) : a \in Names, b \in Names}

outsideServer ==
    <<app, validator, resolver, ops, details, auth, migration, normalizer, fallback, tabs>>

OthersIdle ==
    /\ AppAtRest
    /\ ValidatorIdle
    /\ ResolverIdle
    /\ OpsIdle
    /\ DetailsClosed
    /\ AuthSettled
    /\ MigrationIdle
    /\ NormalizerIdle
    /\ FallbackIdle
    /\ TabsIdle

\* the deployment has a name and a password configured and nothing stored yet
InitServer ==
    /\ OthersIdle
    /\ APP_USER \in Names
    /\ APP_PASS \in Names
    /\ kv = [present |-> FALSE, value |-> <<>>]
    /\ handlers = [h \in Handlers |-> IdleHandler]
    /\ response = NoResponse
    /\ answeredAdded = {}
    /\ deleteRan = FALSE
    /\ issued = NotIssued
    /\ tokenAccepted = "unchecked"

\* const stored = await kv.get(LIBRARY_KEY); return stored || []
getLibrary == IF kv.present THEN kv.value ELSE <<>>

respond(method, header, status, text, touched) ==
    response' = [method |-> method, header |-> header, status |-> status,
                 text |-> text, touched |-> touched]

serverFrame == UNCHANGED <<outsideServer, APP_USER, APP_PASS, issued, tokenAccepted>>

\* The handler from its start to its first await: it answers at once, or goes on to the
\* store. Only POST reads req.body.
Request(h, method, header, body) ==
    /\ handlers[h].pc = "idle"
    /\ LET proceed(pc) ==
               /\ handlers' = [handlers EXCEPT ![h] =
                      [pc |-> pc, method |-> method, header |-> header,
                       body |-> IF method = "POST" THEN body ELSE [isbn |-> NoIsbn],
                       updated |-> <<>>]]
               /\ UNCHANGED response
           answer(status, text) ==
               /\ respond(method, header, status, text, FALSE)
               /\ UNCHANGED handlers
       IN IF method = "OPTIONS" THEN answer(200, "")
          ELSE IF ~isAuthorized(header) THEN answer(401, "Unauthorized")
          ELSE IF method = "GET" THEN proceed("get")
          ELSE IF method = "POST" THEN
              IF body.isbn = NoIsbn THEN answer(400, "Invalid book data")
              ELSE proceed("read")
          ELSE IF method = "DELETE" THEN proceed("clear")
          ELSE answer(405, "Method not allowed")
    /\ UNCHANGED <<kv, answeredAdded, deleteRan>>
    /\ serverFrame

\* await getLibrary() returns: GET answers with it, POST answers 'exists' or prepares
\* [book, ...library]
KvGet(h) ==
    /\ handlers[h].pc \in {"get", "read"}
    /\ LET req == handlers[h]
           library == getLibrary
       IN IF req.pc = "get" THEN
              /\ respond(req.method, req.header, 200, "library", TRUE)
              /\ handlers' = [handlers EXCEPT ![h] = IdleHandler]
          ELSE IF \E i \in 1..Len(library) : library[i].isbn = req.body.isbn THEN
              /\ respond(req.method, req.header, 200, "exists", TRUE)
              /\ handlers' = [handlers EXCEPT ![h] = IdleHandler]
          ELSE
              /\ handlers' = [handlers EXCEPT ![h].pc = "write",
                                              ![h].updated = <<req.body>> \o library]
              /\ UNCHANGED response
    /\ UNCHANGED <<kv, answeredAdded, deleteRan>>
    /\ serverFrame

\* await kv.set(LIBRARY_KEY, ...) returns and the handler answers
KvSet(h) ==
    /\ handlers[h].pc \in {"write", "clear"}
    /\ LET req == handlers[h]
       IN IF req.pc = "write" THEN
              /\ kv' = [present |-> TRUE, value |-> req.updated]
              /\ respond(req.method, req.header, 201, "added", TRUE)
              /\ answeredAdded' = answeredAdded \cup {req.body.isbn}
              /\ UNCHANGED deleteRan
          ELSE
              /\ kv' = [present |-> TRUE, value |-> <<>>]
              /\ respond(req.method, req.header, 200, "cleared", TRUE)
              /\ deleteRan' = TRUE
              /\ UNCHANGED answeredAdded
    /\ handlers' = [handlers EXCEPT ![h] = IdleHandler]
    /\ serverFrame

NextServer ==
    \/ \E h \in Handlers, method \in Methods, header \in Headers, body \in Bodies :
           Request(h, method, header, body)
    \/ \E h \in Handlers : KvGet(h)
    \/ \E h \in Handlers : KvSet(h)

ServerSpec == InitServer /\ [][NextServer]_vars

\* The login endpoint and the check the library endpoint makes of the token it issued.
Configured == Names \cup {<<"u">>, Missing, EmptyText}

InitToken ==
    /\ OthersIdle
    /\ APP_USER \in Configured
    /\ APP_PASS \in Configured
    /\ kv = [present |-> FALSE, value |-> <<>>]
    /\ handlers = [h \in Handlers |-> IdleHandler]
    /\ response = NoResponse
    /\ answeredAdded = {}
    /\ deleteRan = FALSE
    /\ issued = NotIssued
    /\ tokenAccepted = "unchecked"

tokenFrame ==
    UNCHANGED <<outsideServer, APP_USER, APP_PASS, kv, handlers, response,
                answeredAdded, deleteRan>>

\* POST /api/login and the other methods on it
LoginRequest(method, username, password) ==
    /\ issued' =
          IF method = "OPTIONS" THEN [status |-> 200, token |-> Missing]
          ELSE IF method # "POST" THEN [status |-> 405, token |-> Missing]
          ELSE IF username \in {Missing, EmptyText} \/ password \in {Missing, EmptyText}
              THEN [status |-> 400, token |-> Missing]
          ELSE IF APP_USER \in {Missing, EmptyText} \/ APP_PASS \in {Missing, EmptyText}
              THEN [status |-> 500, token |-> Missing]
          ELSE IF username # APP_USER \/ password # APP_PASS
              THEN [status |-> 401, token |-> Missing]
          ELSE [status |-> 200, token |-> buildToken(username, password)]
    /\ tokenAccepted' = "unchecked"
    /\ tokenFrame

\* a request to the library endpoint carries the issued token
PresentToken ==
    /\ issued.token # Missing
    /\ tokenAccepted' = IF isAuthorized(Bearer(issued.token)) THEN "yes" ELSE "no"
    /\ UNCHANGED issued
    /\ tokenFrame

NextToken ==
    \/ \E method \in Methods, username \in Configured, password \in Configured :
           LoginRequest(method, username, password)
    \/ PresentToken

TokenSpec == InitToken /\ [][NextToken]_vars

\* ------------------------------------------------------------ the store operations alone
\* add, update and delete as App applies them to `books`, and the POST handler as it
\* applies an added record to the stored library, each on any record a caller can pass.
OpRecords == {[createBook(c, 0) EXCEPT !.favorite = f] : c \in Codes, f \in BOOLEAN}

InitOps ==
    /\ AppAtRest
    /\ ValidatorIdle
    /\ ResolverIdle
    /\ OpsIdle
    /\ DetailsClosed
    /\ AuthSettled
    /\ RestIdle

\* App.addBook: setBooks(prevBooks => ...)
OpAdd(rec) ==
    /\ books' = addBook(books, rec)
    /\ lastOp' = [op |-> "add", rec |-> rec, present |-> rec.isbn \in IsbnSet(books)]
    /\ UNCHANGED <<version, view, now, debouncer, existingISBNs, calls, lookups, resolved, last>>
    /\ UNCHANGED <<validator, resolver, details, auth, stored, rest>>

\* App.updateBook: setBooks(prevBooks => prevBooks.map(...))
OpUpdate(rec) ==
    /\ books' = updateBook(books, rec)
    /\ lastOp' = [op |-> "update", rec |-> rec, present |-> rec.isbn \in IsbnSet(books)]
    /\ UNCHANGED <<version, view, now, debouncer, existingISBNs, calls, lookups, resolved, last>>
    /\ UNCHANGED <<validator, resolver, details, auth, stored, rest>>

\* App.deleteBook: setBooks(prevBooks => prevBooks.filter(...))
OpDelete(isbn) ==
    /\ books' = deleteBook(books, isbn)
    /\ lastOp' = [op |-> "delete", rec |-> createBook(isbn, 0), present |-> isbn \in IsbnSet(books)]
    /\ UNCHANGED <<version, view, now, debouncer, existingISBNs, calls, lookups, resolved, last>>
    /\ UNCHANGED <<validator, resolver, details, auth, stored, rest>>

\* /api/library, POST, with a valid token and a book that carries an isbn
OpPost(rec) ==
    /\ stored' = postBook(stored, rec)
    /\ lastOp' = [op |-> "post", rec |-> rec, present |-> rec.isbn \in IsbnSet(stored)]
    /\ UNCHANGED <<app, validator, resolver, details, auth, rest>>

NextOps ==
    \/ \E rec \in OpRecords : OpAdd(rec)
    \/ \E rec \in OpRecords : OpUpdate(rec)
    \/ \E isbn \in Codes : OpDelete(isbn)
    \/ \E rec \in OpRecords : OpPost(rec)

OpsSpec == InitOps /\ [][NextOps]_vars

\* ------------------------------------------------------------ properties
\* The lookups of the mounted scanner that are still awaited.
LiveCalls == {i \in DOMAIN calls : calls[i].live}

\* The records of a library that carry the given ISBN.
RecordsOf(bs, code) == {i \in DOMAIN bs : bs[i].isbn = code}

PendingTimer(kind, code) ==
    \E j \in DOMAIN timers : timers[j] = [kind |-> kind, code |-> code]

\* C1: within one scanning session, from the first decode of an ISBN that
\* starts a lookup until that lookup's cooldown has expired, the Resolver is
\* called at most once for that ISBN, however often the ISBN is decoded.
C1_SingleFlight == \A code \in Codes : resolved[code] <= 1

\* V1 is decoded again while its lookup is in flight, and is dropped.
C1_Witness ==
    /\ last = Event("decode", V1, "ignored", "none", TRUE)
    /\ resolved[V1] = 1
    /\ \E i \in LiveCalls : calls[i].isbn = V1

\* C2: at most one lookup of the mounted scanner is in flight at any time; a
\* step taken while the debouncer is Processing starts no Resolver call, and a
\* Resolver call starts only in the decode step of the code it resolves, so a
\* dropped decode is never served later.
C2_OneInFlight ==
    /\ [](Cardinality(LiveCalls) <= 1)
    /\ [][isProcessing => lookups' = lookups]_vars
    /\ [][lookups' # lookups =>
            /\ last'.op = "decode" /\ last'.out = "lookup"
            /\ Len(calls') = Len(calls) + 1
            /\ calls'[Len(calls')].isbn = last'.code]_vars

\* Another code is decoded while a lookup is in flight, and is dropped.
C2_Witness ==
    /\ last = Event("decode", V2, "ignored", "none", TRUE)
    /\ isProcessing
    /\ \E i \in LiveCalls : calls[i].isbn = V1
    /\ lookups = 1

\* C3 (as stated): a lookup starts only for a code that is valid, not in the
\* library and not being processed, and every decode of a code that is in the
\* library raises the 'already in shelf' signal.
C3_Original ==
    /\ [][lookups' # lookups =>
            /\ isValidISBN(last'.code)
            /\ last'.code \notin IsbnSet(books)
            /\ ~isProcessing]_vars
    /\ [][(last'.op = "decode" /\ last'.code \in IsbnSet(books)) =>
            last'.signal = "already"]_vars

\* C3 (amended): a lookup starts only for a code that is valid, not in the
\* library and not being processed; a decode of a code that is in the library
\* never starts a lookup, raises 'already in shelf' when the debouncer is not
\* Processing and the code is not the last-scanned marker, and is dropped
\* without a signal otherwise.
C3_Amended ==
    /\ [][lookups' # lookups =>
            /\ isValidISBN(last'.code)
            /\ last'.code \notin IsbnSet(books)
            /\ ~isProcessing]_vars
    /\ [][(last'.op = "decode" /\ last'.code \in IsbnSet(books)) =>
            /\ lookups' = lookups
            /\ (~isProcessing /\ lastScanned # last'.code) => last'.signal = "already"
            /\ (isProcessing \/ lastScanned = last'.code) => last'.signal = "none"]_vars

\* V1 was added by a scan, and its next accepted decode is suppressed.
C3_Witness ==
    /\ last = Event("decode", V1, "dup", "already", TRUE)
    /\ V1 \in IsbnSet(books)
    /\ lookups = 1
    /\ calls = <<>>

\* C4: when a lookup that a decode of a valid ISBN outside the library started
\* completes with a record, the library then holds exactly one record with that
\* ISBN, and the record's dateAdded is the time of that scan (the time at which
\* its lookup delivered the record).
C4_EndToEndScan ==
    [][(last'.op = "done" /\ last'.out = "found") =>
         /\ Cardinality(RecordsOf(books', last'.code)) = 1
         /\ \A i \in RecordsOf(books', last'.code) : books'[i].dateAdded = now]_vars

\* C5: no two records of the library share an ISBN, whatever adds, updates,
\* deletes and clears were applied.
C5_UniqueISBN ==
    \A i \in DOMAIN books : \A j \in DOMAIN books :
        books[i].isbn = books[j].isbn => i = j

\* An ISBN that is in a library of two books was added again, and is there once.
C5_Witness ==
    /\ last = Event("add", BAD, "dup", "none", FALSE)
    /\ Len(books) = 2
    /\ Cardinality(RecordsOf(books, BAD)) = 1
    /\ \E i \in DOMAIN books : books[i].favorite

\* C6: after a lookup has completed, the debouncer is on its way back to Idle:
\* while the scanner is mounted and Processing with no lookup in flight, the
\* timer that resets it is pending.
C6_ReturnsToIdle ==
    (view = "scanner" /\ isProcessing /\ LiveCalls = {}) =>
        \E j \in DOMAIN timers : timers[j].kind = "proc"

\* C7: the completion of a lookup whose scanner was stopped changes no library.
C7_CancelledResultDiscarded ==
    [][(last'.op = "done" /\ ~last'.live) => books' = books]_vars

C9_NoRepeatInCooldown ==
    [][(last'.op = "decode" /\ last'.signal = "already") =>
         ~PendingTimer("dup", last'.code)]_vars

Isbn13Sum(c) ==
    c[1] + 3 * c[2] + c[3] + 3 * c[4] + c[5] + 3 * c[6]
    + c[7] + 3 * c[8] + c[9] + 3 * c[10] + c[11] + 3 * c[12]

Isbn13Valid(c) ==
    /\ Len(c) = 13
    /\ \A i \in 1..13 : c[i] \in 0..9
    /\ c[1] = 9 /\ c[2] = 7 /\ (c[3] = 8 \/ c[3] = 9)
    /\ c[13] = (10 - (Isbn13Sum(c) % 10)) % 10

\* C11: isValidISBN returns true exactly for the strings of 13 characters, all
\* digits, that start with 978 or 979 and whose 13th digit is
\* (10 - (weighted sum of the first twelve) mod 10) mod 10; 9780140449136 is
\* valid, 9780140449137, 1234567890123 and 97801404491 are not.
C11_ValidatorIff ==
    /\ verdict = Isbn13Valid(candidate)
    /\ isValidISBN(V1)
    /\ ~isValidISBN(BAD) /\ ~isValidISBN(N1) /\ ~isValidISBN(S11)

\* A string with a correct check digit is rejected for its prefix alone.
C11_Witness ==
    /\ candidate = <<1, 2, 3, 4, 5, 6, 7, 8, 9, 0, 1, 2, 8>>
    /\ verdict = FALSE
    /\ edits = 1

\* The sources a lookup has called so far.
Tried(r) == {reqs[r].tried[k] : k \in DOMAIN reqs[r].tried}

\* C12: in every lookup the fallback source is called only after the primary
\* query has finished without data, never when the primary has data, and at
\* most one of the two queries is in flight.
C12_SourcesSequential ==
    \A r \in Requests :
        /\ Cardinality(reqs[r].inflight) <= 1
        /\ "llm" \in Tried(r) =>
              /\ reqs[r].tried[1] = "openlibrary"
              /\ "openlibrary" \notin reqs[r].inflight
              /\ olReply # "data"
        /\ olReply = "data" => "llm" \notin Tried(r)
        /\ reqs[r].pc = "primary" => reqs[r].tried = <<"openlibrary">>

\* The primary found nothing and the fallback query is the only one in flight.
C12_Witness ==
    \E r \in Requests :
        /\ reqs[r].pc = "llm"
        /\ reqs[r].tried = <<"openlibrary", "llm">>
        /\ reqs[r].inflight = {"llm"}
        /\ olReply = "empty"

\* C13: a failure of the primary query leads to the fallback being called; when
\* the primary has nothing and the fallback fails (every model fails, or no key
\* is configured) the caller gets null; fetchBookByISBN settles with a record or
\* with null whatever the sources and the network do.
C13_FailuresNotFatal ==
    \A r \in Requests :
        /\ (olReply = "error" /\ reqs[r].pc \in {"llm", "responded"}) =>
              (Len(reqs[r].tried) >= 2 /\ reqs[r].tried[2] = "llm")
        /\ (/\ reqs[r].pc = "settled"
            /\ olReply # "data"
            /\ (~apiKey \/ \A m \in Models : llmReply[m] = "error")) =>
              reqs[r].kind = "null"
        /\ reqs[r].pc = "settled" => reqs[r].kind \in {"record", "null"}
        /\ reqs[r].pc # "settled" => reqs[r].kind = "pending"

\* The primary failed, both models failed, and the caller got null from a 404.
C13_Witness ==
    \E r \in Requests :
        /\ reqs[r].pc = "settled"
        /\ olReply = "error"
        /\ reqs[r].tried = <<"openlibrary", "llm", "llm">>
        /\ reqs[r].status = 404
        /\ reqs[r].kind = "null"

AddEffect(before, after, rec) ==
    IF rec.isbn \in IsbnSet(before)
    THEN after = before
    ELSE /\ Len(after) = Len(before) + 1
         /\ after[1] = rec
         /\ \A i \in DOMAIN before : after[i + 1] = before[i]

C16_DeleteOneOrNoop ==
    [][lastOp'.op = "delete" =>
        IF lastOp'.rec.isbn \in IsbnSet(books)
        THEN \E j \in DOMAIN books :
                /\ books[j].isbn = lastOp'.rec.isbn
                /\ books' = RemoveAt(books, j)
        ELSE books' = books]_vars

C16_Witness ==
    /\ lastOp.op = "delete"
    /\ lastOp.present
    /\ Len(books) = 2
    /\ lastOp.rec.isbn \notin IsbnSet(books)

\* C17: dateAdded is set once when a record is created and never changes afterwards:
\* over every step, whatever status, rating, notes or favourite edit it applies, a
\* record that is in the library before and after has the same dateAdded.
C17_DateAddedImmutable ==
    [][\A i \in DOMAIN books : \A j \in DOMAIN books' :
          books[i].isbn = books'[j].isbn => books'[j].dateAdded = books[i].dateAdded]_vars

C17_Witness ==
    /\ last.op = "update"
    /\ now = MaxTime
    /\ \E i \in DOMAIN books :
          /\ books[i] = editedBook
          /\ books[i].dateAdded < now
          /\ books[i].readingStatus = "read"
          /\ books[i].rating = 4
          /\ books[i].notes = "n"
          /\ books[i].favorite

\* C18: in every reachable state each record's rating is absent or one of 1..5;
\* records are created unrated and every rating action keeps the value in that set.
C18_RatingDomain ==
    /\ \A i \in DOMAIN books : books[i].rating \in {NoRating} \cup (1..5)
    /\ editedBook.rating \in {NoRating} \cup (1..5)
    /\ \A c \in Codes : \A t \in 0..MaxTime : createBook(c, t).rating = NoRating

C18_Witness ==
    /\ Len(books) = 2
    /\ books[1].rating = 5
    /\ books[2].rating = NoRating
    /\ books[2].readingStatus = "read"
    /\ editedBook = books[1]

\* C19: whenever fetchBooks, addBookRemote, updateBookRemote, deleteBookRemote or
\* deleteAllBooksRemote receives a 401, the stored credential is cleared, the
\* in-memory auth token becomes null, and the app shows the login prompt instead of
\* any library or scanner view.
C19_UnauthorizedDeauthenticates ==
    [][(lastReply'.kind \in Kinds /\ lastReply'.status = 401) =>
        /\ credential' = NoToken
        /\ authToken' = NoToken
        /\ renderView' = "login"]_vars

C19_Witness ==
    /\ lastReply.kind = "updateBookRemote"
    /\ lastReply.status = 401
    /\ credential = NoToken
    /\ authToken = NoToken
    /\ renderView = "login"
    /\ inflight # <<>>

\* a record with the right kind of value in every field of Book, a title and a date
WellFormed(book) ==
    /\ \A key \in {"isbn", "title", "dateAdded"} :
          Get(book, key).k = "string" /\ Get(book, key).s # ""
    /\ \A key \in {"coverUrl", "description", "notes", "readingStatus"} :
          Get(book, key).k = "string"
    /\ \A key \in {"authors", "genre"} : Get(book, key).k = "array"
    /\ Get(book, "pageCount").k = "number"
    /\ Get(book, "rating").k \in {"null", "number"}
    /\ Get(book, "favorite").k = "boolean"

\* equal field for field; a key that is missing counts as undefined
SameFields(a, b) == \A key \in DOMAIN a \cup DOMAIN b : Get(a, key) = Get(b, key)

SameLibrary(x, y) ==
    /\ Len(x) = Len(y)
    /\ \A i \in DOMAIN x : SameFields(x[i], y[i])

\* C21: importing the file exportToJSON(books) produced (parse, store, reload with
\* migration) yields a library equal to books record for record and field for field,
\* for every non-empty library of well-formed records.
C21_ExportRoundTrip ==
    (/\ step = "import"
     /\ exported # <<>>
     /\ \A i \in DOMAIN exported : WellFormed(exported[i]))
    => SameLibrary(storedValue, exported)

C21_Witness ==
    /\ step = "import"
    /\ Len(exported) = 2
    /\ \A i \in DOMAIN exported : WellFormed(exported[i])
    /\ exported[1]["isbn"] = Str("5")
    /\ exported[1]["publisher"] = Undefined
    /\ exported[1]["favorite"] = Bool(TRUE)
    /\ exported[2]["isbn"] = Str("3")
    /\ SameLibrary(storedValue, exported)

\* the stored record a loaded book came from
RawBook(i) == JSONparse(raw)[i]

Loaded == step \in {"load", "reload", "import"}

\* every loaded book carries the four fields of the second format, with the default
\* where the stored record had none
CarriesV2Fields ==
    \A i \in DOMAIN storedValue :
        /\ {"readingStatus", "rating", "notes", "favorite"} \subseteq DOMAIN storedValue[i]
        /\ "readingStatus" \notin DOMAIN RawBook(i) => storedValue[i]["readingStatus"] = Str("unread")
        /\ "rating" \notin DOMAIN RawBook(i) => storedValue[i]["rating"] = Null
        /\ "notes" \notin DOMAIN RawBook(i) => storedValue[i]["notes"] = Str("")
        /\ "favorite" \notin DOMAIN RawBook(i) => storedValue[i]["favorite"] = Bool(FALSE)

MigrationIdempotent ==
    \A i \in DOMAIN storedValue : SameFields(migrateBook(storedValue[i]), storedValue[i])

\* C25 as stated: loading the stored book array yields records that all carry
\* readingStatus, rating, notes and favorite (defaults 'unread', null, '', false when
\* missing) with every value already present preserved, and migrating a migrated
\* record changes nothing.
C25_Original ==
    Loaded =>
        /\ Len(storedValue) = Len(raw)
        /\ CarriesV2Fields
        /\ \A i \in DOMAIN storedValue : \A key \in DOMAIN RawBook(i) :
              storedValue[i][key] = RawBook(i)[key]
        /\ MigrationIdempotent

\* C25, amended: as above, but of the values already present an empty title is not
\* preserved (it becomes 'Unknown'), nor an empty dateAdded (it becomes the time of
\* the load); every other value present is preserved.
C25_Amended ==
    Loaded =>
        /\ Len(storedValue) = Len(raw)
        /\ CarriesV2Fields
        /\ \A i \in DOMAIN storedValue : \A key \in DOMAIN RawBook(i) :
              \/ storedValue[i][key] = RawBook(i)[key]
              \/ /\ key = "title"
                 /\ RawBook(i)[key] = Str("")
                 /\ storedValue[i][key] = Str("Unknown")
              \/ /\ key = "dateAdded"
                 /\ RawBook(i)[key] = Str("")
                 /\ storedValue[i][key] = LoadTime
        /\ MigrationIdempotent

C25_Witness ==
    /\ step = "load"
    /\ Len(raw) = 2
    /\ raw[1] = V1Stored
    /\ raw[2] = V2Stored
    /\ storedValue[1]["readingStatus"] = Str("unread")
    /\ storedValue[1]["rating"] = Null
    /\ storedValue[2]["readingStatus"] = Str("read")
    /\ storedValue[2]["rating"] = Num(4)

\* the source gives no entry: the list is missing or empty
GivesNone(list) == list.k = "undefined" \/ (list.k = "array" /\ list.l = <<>>)

\* C22: every record the Resolver returns from the primary source has a title
\* ("Unknown Title" when the source gives none), a non-empty author list
\* (["Unknown Author"] when the source gives none), a non-empty genre list
\* (["Uncategorized"] when the source gives none) holding at most 5 entries, and a
\* cover URL derived only from the ISBN.
C22_PrimaryNormalized ==
    record.found =>
        /\ record.title.k = "string" /\ record.title.s # ""
        /\ falsy(olBook.title) => record.title = Str("Unknown Title")
        /\ record.authors.k = "array" /\ record.authors.l # <<>>
        /\ GivesNone(olBook.authors) => record.authors = Arr(<<"Unknown Author">>)
        /\ record.genre.k = "array" /\ record.genre.l # <<>> /\ Len(record.genre.l) <= 5
        /\ GivesNone(olBook.subjects) => record.genre = Arr(<<"Uncategorized">>)
        /\ record.coverUrl = coverUrlOf(lookedUp)

\* model m's response is OK and its content parses once the fence markers are stripped
Succeeds(m) == answers[m].ok /\ parses(stripFences(answers[m].content))

FirstToSucceed == CHOOSE m \in Models : Succeeds(m) /\ \A k \in Models : Succeeds(k) => m <= k

\* C23: tryLLM queries the models in their listed order and returns the payload of
\* the first model whose response is OK and parses as JSON after the code-fence
\* markers are stripped; once a model has succeeded no later model is queried, a
\* failing model only causes the next one to be tried, and if every model fails the
\* result is nothing.
C23_ModelsInOrder ==
    /\ \A i \in DOMAIN queried : queried[i] = i
    /\ \A i \in DOMAIN queried : i > 1 => ~Succeeds(queried[i - 1])
    /\ (~llmResult.done /\ asking = 0 /\ queried # <<>>) =>
          (~Succeeds(queried[Len(queried)]) /\ queried[Len(queried)] + 1 \in Models)
    /\ llmResult.done =>
          IF \E m \in Models : Succeeds(m)
          THEN /\ llmResult.payload = stripFences(answers[FirstToSucceed].content)
               /\ Len(queried) = FirstToSucceed
          ELSE /\ llmResult.payload = <<NullText>>
               /\ Len(queried) = Cardinality(Models)

C23_Witness ==
    /\ llmResult.done
    /\ queried = <<1, 2>>
    /\ answers[1].content = <<Prose, Newline, FenceJson, Newline, ObjectText(1), Newline, Fence>>
    /\ answers[2].content = <<FenceJson, Newline, ObjectText(2), Newline, Fence>>
    /\ llmResult.payload = <<ObjectText(2)>>

\* C24: with two tabs on the same key, once all pending storage events have been
\* delivered each tab's in-memory value equals the value held in localStorage, for
\* every interleaving of the tabs' writes and storage-event deliveries.
C24_TabsConverge ==
    (\A t \in Tabs : events[t] = <<>>) =>
        \A t \in Tabs : JSONstringify(tabValue[t]) = sharedItem

\* The credential the login derives from the configured name and password, as
\* libraryService attaches it.
ValidBearer(header) == header = Bearer(buildToken(APP_USER, APP_PASS))

Refused ==
    response.method \notin {"", "OPTIONS"} /\ ~ValidBearer(response.header)
        => response.status = 401 /\ ~response.touched

OnlyAuthorizedRun ==
    \A h \in Handlers : handlers[h].pc # "idle" => ValidBearer(handlers[h].header)

OnlyAuthorizedChange ==
    kv' # kv =>
        \E h \in Handlers :
            /\ handlers[h].pc \in {"write", "clear"}
            /\ handlers[h].method \in {"POST", "DELETE"}
            /\ ValidBearer(handlers[h].header)
            /\ handlers'[h] = IdleHandler

\* C26: every request to the library endpoint, OPTIONS aside, that does not carry the
\* bearer credential of the configured name and password is answered 401 without a
\* read or a write of the stored library, and the stored library changes only in a POST
\* or DELETE request that carries it.
C26_UnauthorizedRefused ==
    [][Refused' /\ OnlyAuthorizedRun' /\ OnlyAuthorizedChange]_vars

AllFinished == \A h \in Handlers : handlers[h].pc = "idle"

Holds(isbn) == \E i \in 1..Len(getLibrary) : getLibrary[i].isbn = isbn

NoTwoAlike ==
    \A i, j \in 1..Len(getLibrary) : getLibrary[i].isbn = getLibrary[j].isbn => i = j

\* C29: once every request has finished and no DELETE ran, the stored library holds
\* every book whose POST was answered 201 'added', and the stored array never holds two
\* records with the same isbn.
C29_NoLostAdd ==
    /\ AllFinished /\ ~deleteRan => \A isbn \in answeredAdded : Holds(isbn)
    /\ NoTwoAlike

\* C30: the token the login endpoint issues for the configured name and password is
\* accepted by the authorization check of the library endpoint.
C30_TokenRoundTrip ==
    issued.status = 200 /\ issued.token # Missing => tokenAccepted # "no"

\* C28: an add that a finished scan lookup issues is applied to the library as it is at
\* that moment: the library after it is addBook of the library before it, so no record
\* and no edit made since the decode is discarded.
C28_NoLostUpdate ==
    [][last'.op = "done" /\ last'.signal = "added"
           => books' = addBook(books, fetchBookByISBN(last'.code, "found"))]_vars

\* the reset timer that the finally block of a lookup has set is pending
InCooldown == \E j \in DOMAIN timers : timers[j].kind = "proc"

\* C27: while the reset timer set at the end of a lookup is pending, every decode event
\* is ignored, whatever its code: it starts no lookup and raises no 'already in shelf'
\* signal.
C27_CooldownIgnoresAll ==
    [][InCooldown /\ last'.op = "decode"
           => last'.out = "ignored" /\ calls' = calls /\ timers' = timers]_vars

\* In the cooldown of one code, a decode of another code has just been ignored.
C27_Witness ==
    /\ last.op = "decode"
    /\ last.out = "ignored"
    /\ \E j \in DOMAIN timers : timers[j].kind = "proc" /\ timers[j].code # last.code
====
